---- MODULE Spec2Model ----
(***************************************************************************)
(* The RightGlaze draft-order checkout servers.  The repository holds      *)
(* several variants of one server; each is a POST /checkout handler that   *)
(* verifies an HMAC signature, computes or forwards totals and creates a   *)
(* draft order on the platform.  The handlers are named after their file:  *)
(*   p000 .. p004   src/unnamed/part_000 .. part_004                       *)
(*   s1, s2, s3     the three servers concatenated in src/server.js        *)
(*                                                                         *)
(* Money is an integer number of hundredths of a penny (1e-4 GBP):         *)
(* area(mm^2) * rate(GBP/m^2) is then exact for every area that is a       *)
(* multiple of 100 mm^2, as all areas of the inputs are.  Binary floating  *)
(* point rounding of sums of decimal fractions is not modelled.  Strings   *)
(* that are parsed or decoded (timestamps, hex signatures) are sequences   *)
(* of one-character strings.                                               *)
(***************************************************************************)
EXTENDS Integers, Sequences, FiniteSets, TLC

VARIABLES
  handler,    \* which server handles the request in flight ("none" when idle)
  req,        \* the request in flight: origin, headers, body bytes
  now,        \* the server clock, Date.now(), in ms
  pc,         \* "idle", "create" (awaiting draftOrderCreate), "lookup", "done"
  auth,       \* result of the handler's signature check
  signedBody, \* the rawBody the handler put in the HMAC message
  input,      \* the DraftOrderInput sent with the create mutation
  nCreate,    \* draftOrderCreate mutations sent for this request
  nLookup,    \* invoice lookups sent for this request
  order,      \* the draft order the platform returned for this request
  res,        \* the HTTP response sent
  drafts      \* draft orders the platform holds (all requests)

vars == <<handler, req, now, pc, auth, signedBody, input, nCreate, nLookup,
          order, res, drafts>>

----------------------------------------------------------------------------
(* Bounds of the model *)

\* The clock starts here and may advance MaxTick ms.
BaseClock == 1000000
MaxTick == 1
\* Units per request payload.
MaxUnits == 2
\* Draft orders the platform may hold before the model stops taking requests.
MaxDrafts == 1
\* Bytes of a digest that the model spells out as hex characters.
DigestBytes == 2

----------------------------------------------------------------------------
(* JavaScript values of the JSON payload *)

Num(n) == [t |-> "num", v |-> n]
NaN == [t |-> "nan", v |-> 0]
Undef == [t |-> "undef", v |-> 0]
\* a non-numeric string such as "abc"
Str == [t |-> "str", v |-> 0]

\* Number(x) for a payload value: a number is itself, undefined and a
\* non-numeric string are NaN.
Number(x) == IF x.t = "num" THEN x ELSE NaN

NumberIsFinite(x) == x.t = "num"

\* The idiom  Number(x) || d : NaN and 0 are falsy.
NumberOr(x, d) == IF Number(x).t = "num" /\ Number(x).v # 0 THEN Number(x).v ELSE d

Abs(n) == IF n < 0 THEN -n ELSE n
Min(a, b) == IF a < b THEN a ELSE b
Max(a, b) == IF a > b THEN a ELSE b

\* One penny and one pound in money units.
Penny == 10 * 10
Pound == 100 * Penny

\* x.toFixed(2) of a money value: the nearest penny, halves away from zero.
\* The result is the number of pence.
ToFixed2(x) == IF x >= 0 THEN (x + Penny \div 2) \div Penny
               ELSE -((-x + Penny \div 2) \div Penny)

\* Math.round(x * 100): the nearest penny, halves towards +infinity.
MathRound100(x) == (x + Penny \div 2) \div Penny

----------------------------------------------------------------------------
(* Strings: decimal timestamps and hex digests *)

Digits == <<"0", "1", "2", "3", "4", "5", "6", "7", "8", "9">>
HexLower == Digits \o <<"a", "b", "c", "d", "e", "f">>
HexUpper == Digits \o <<"A", "B", "C", "D", "E", "F">>

IndexIn(seq, c) == CHOOSE i \in DOMAIN seq : seq[i] = c
Range(seq) == {seq[i] : i \in DOMAIN seq}

IsDigit(c) == c \in Range(Digits)
DigitVal(c) == IndexIn(Digits, c) - 1

\* String(n) of a non-negative integer.
RECURSIVE ToDigits(_)
ToDigits(n) == IF n < 10 THEN <<Digits[n + 1]>>
               ELSE ToDigits(n \div 10) \o <<Digits[(n % 10) + 1]>>

\* Number(s) of a header string made of digits and letters: the decimal
\* value when every character is a digit, NaN otherwise.  (The empty string
\* is 0; signs, exponents, blanks and radix prefixes are outside the inputs.)
RECURSIVE DecimalValue(_)
DecimalValue(s) == IF s = <<>> THEN 0
                   ELSE 10 * DecimalValue(SubSeq(s, 1, Len(s) - 1)) + DigitVal(s[Len(s)])

StringToNumber(s) == IF \A i \in DOMAIN s : IsDigit(s[i]) THEN Num(DecimalValue(s)) ELSE NaN

IsHex(c) == c \in Range(HexLower) \cup Range(HexUpper)
HexVal(c) == IF c \in Range(HexLower) THEN IndexIn(HexLower, c) - 1
             ELSE IndexIn(HexUpper, c) - 1

\* Buffer.from(s, "hex"): whole pairs of hex digits, cut at the first pair
\* that is not hex; a trailing single character is dropped.
RECURSIVE HexPairs(_, _)
HexPairs(s, i) == IF i + 1 > Len(s) THEN <<>>
                  ELSE IF IsHex(s[i]) /\ IsHex(s[i + 1])
                       THEN <<16 * HexVal(s[i]) + HexVal(s[i + 1])>> \o HexPairs(s, i + 2)
                       ELSE <<>>

BufferFromHex(s) == HexPairs(s, 1)

\* digest("hex"): lowercase hex of fixed width.
RECURSIVE ToHex(_, _)
ToHex(n, width) == IF width = 0 THEN <<>>
                   ELSE ToHex(n \div 16, width - 1) \o <<HexLower[(n % 16) + 1]>>

----------------------------------------------------------------------------
(* The JSON payload and the request body *)

\* A string field the client left out.
NoStr == "<undefined>"
\* String(x): an absent field reads "undefined".
StringOf(x) == IF x = NoStr THEN "undefined" ELSE x
\* x || d for a string field: absent and "" are falsy.
StrOr(x, d) == IF x = NoStr \/ x = "" THEN d ELSE x

\* toLowerCase on the calculator types of the inputs.
ToLowerCase(s) == CASE s = "DGU" -> "dgu"
                    [] s = "Dgu" -> "dgu"
                    [] s = "Skylight" -> "skylight"
                    [] s = "Window" -> "window"
                    [] OTHER -> s

\* A unit of the payload with every field left out; numeric fields the
\* client left out are Undef.  internal is the skylight's internal size
\* (raw.internal.widthMm, raw.internal.heightMm).
BlankUnit ==
  [qty |-> Undef, unitPrice |-> Undef, lineTotal |-> Undef,
   outerGlass |-> NoStr, innerGlass |-> NoStr, selfCleaning |-> NoStr,
   widthMm |-> Undef, heightMm |-> Undef,
   internalWidthMm |-> Undef, internalHeightMm |-> Undef]

\* calculatorType left out of the payload.
NoType == NoStr

Payload(type, units, grandTotal, totalUnitsQty) ==
  [calculatorType |-> type, units |-> units, grandTotal |-> grandTotal,
   totalUnitsQty |-> totalUnitsQty]

\* The object {} .
EmptyObject == Payload(NoType, <<>>, Undef, Undef)

\* The body as received: no bytes at all, bytes that are no JSON, or a
\* JSON text, which is a value (payload) in some formatting (fmt): the
\* compact one JSON.stringify writes, or one with extra white space.
EmptyBody == [kind |-> "empty", payload |-> EmptyObject, fmt |-> "compact"]
MalformedBody == [kind |-> "malformed", payload |-> EmptyObject, fmt |-> "compact"]
JsonBody(p, fmt) == [kind |-> "json", payload |-> p, fmt |-> fmt]

\* JSON.parse of a JSON text; JSON.stringify of a value.
JsonParse(b) == b.payload
JsonStringify(p) == JsonBody(p, "compact")

RECURSIVE SeqSum(_)
SeqSum(s) == IF s = <<>> THEN 0 ELSE s[1] + SeqSum(Tail(s))

----------------------------------------------------------------------------
(* HMAC *)

FRONTEND_SHARED_SECRET == "secret"
ALLOWED_ORIGIN == "https://shop"

MAX_SKEW_MS == 5 * 60 * 1000
REPLAY_WINDOW_MS == 10 * 60 * 1000
SIGNATURE_MAX_AGE_MS == 5 * 60 * 1000
SKEW_MS_S1 == 5 * 60 * 1000

\* The X-RG-Timestamp values of the inputs: absent, not a number, and the
\* clock's start shifted by each window, to the millisecond.
SkewOffsets == {0} \cup {s * k : s \in {-1, 1},
                                 k \in {MAX_SKEW_MS, MAX_SKEW_MS + 1,
                                        REPLAY_WINDOW_MS, REPLAY_WINDOW_MS + 1}}
NoHeader == <<>>
TsStrings == {NoHeader, <<"a", "b", "c">>} \cup {ToDigits(BaseClock + d) : d \in SkewOffsets}

RECURSIVE SetToSeq(_)
SetToSeq(S) == IF S = {} THEN <<>>
               ELSE LET x == CHOOSE y \in S : TRUE
                    IN <<x>> \o SetToSeq(S \ {x})
TsSeq == SetToSeq(TsStrings)

\* crypto.createHmac("sha256", secret).update(`${ts}.${raw}`).digest("hex").
\* HMAC is taken to be injective on the messages of the model.  A digest is
\* a hex string; the model spells out its last DigestBytes bytes (hex),
\* which tell the timestamp, the kind of body and its formatting apart, and
\* keeps the leading part (head) as the JSON value the message carries.
\* The spelled-out bytes start at ab.. so that they hold letters.
DigestBase == 171 * 256
BodyIndex(raw) == CASE raw.kind = "empty" -> 0
                    [] raw.kind = "malformed" -> 1
                    [] raw.kind = "json" /\ raw.fmt = "compact" -> 2
                    [] OTHER -> 3
HmacSha256Hex(secret, ts, raw) ==
  [head |-> raw.payload,
   hex |-> ToHex(DigestBase + 4 * (IndexIn(TsSeq, ts) - 1) + BodyIndex(raw),
                 2 * DigestBytes)]

\* No X-RG-Signature header.
NoSig == [head |-> EmptyObject, hex |-> NoHeader]

\* Buffer.from(a, "hex") and Buffer.from(b, "hex") have the same length and
\* the same bytes.
timingSafeEqualHex(a, b) ==
  /\ a.head = b.head
  /\ Len(BufferFromHex(a.hex)) = Len(BufferFromHex(b.hex))
  /\ BufferFromHex(a.hex) = BufferFromHex(b.hex)

\* Buffer.from(a, "utf8") and Buffer.from(b, "utf8") have the same length
\* and the same bytes: the strings are equal.
timingSafeEqualUtf8(a, b) == a.head = b.head /\ a.hex = b.hex

Ok == [ok |-> TRUE, reason |-> "ok"]
Fail(reason) == [ok |-> FALSE, reason |-> reason]

\* A variant of verifyHmac that turns away a timestamp at the very edge of
\* the window (skew >= maxSkewMs); the skew boundary property tells it from
\* the code.
verifyHmac_edgeRejected(secret, timestamp, rawBody, signatureHex, maxSkewMs, clock) ==
  IF timestamp = NoHeader \/ signatureHex.hex = NoHeader THEN Fail("missing_headers")
  ELSE LET tsNum == StringToNumber(timestamp) IN
    IF ~NumberIsFinite(tsNum) THEN Fail("bad_timestamp")
    ELSE IF Abs(clock - tsNum.v) >= maxSkewMs THEN Fail("timestamp_skew")
    ELSE IF ~timingSafeEqualHex(HmacSha256Hex(secret, timestamp, rawBody), signatureHex)
         THEN Fail("bad_signature")
    ELSE Ok

\* part_000
verifyHmac(secret, timestamp, rawBody, signatureHex, maxSkewMs, clock) ==
  IF timestamp = NoHeader \/ signatureHex.hex = NoHeader THEN Fail("missing_headers")
  ELSE LET tsNum == StringToNumber(timestamp) IN
    IF ~NumberIsFinite(tsNum) THEN Fail("bad_timestamp")
    ELSE IF Abs(clock - tsNum.v) > maxSkewMs THEN Fail("timestamp_skew")
    ELSE IF ~timingSafeEqualHex(HmacSha256Hex(secret, timestamp, rawBody), signatureHex)
         THEN Fail("bad_signature")
    ELSE Ok

\* part_001
verifySignature(ts, sig, rawBody, clock) ==
  IF ts = NoHeader \/ sig.hex = NoHeader THEN Fail("Missing signature headers")
  ELSE LET tsNum == StringToNumber(ts) IN
    IF ~NumberIsFinite(tsNum) THEN Fail("Invalid timestamp")
    ELSE IF Abs(clock - tsNum.v) > SIGNATURE_MAX_AGE_MS THEN Fail("Signature expired")
    ELSE IF ~timingSafeEqualUtf8(HmacSha256Hex(FRONTEND_SHARED_SECRET, ts, rawBody), sig)
         THEN Fail("Signature mismatch")
    ELSE Ok

\* server.js, first server
verifyFrontendSignature_s1(ts, sig, raw, clock) ==
  IF ts = NoHeader \/ sig.hex = NoHeader THEN Fail("Missing signature headers")
  ELSE LET tsNum == StringToNumber(ts) IN
    IF ~NumberIsFinite(tsNum) THEN Fail("Invalid timestamp")
    ELSE IF Abs(clock - tsNum.v) > SKEW_MS_S1 THEN Fail("Timestamp too old/new")
    ELSE IF ~timingSafeEqualHex(sig, HmacSha256Hex(FRONTEND_SHARED_SECRET, ts, raw))
         THEN Fail("Bad signature")
    ELSE Ok

\* part_002 (and part_004): no timestamp window.
verifyFrontendSignature(ts, sig, raw) ==
  IF ts = NoHeader \/ sig.hex = NoHeader THEN FALSE
  ELSE timingSafeEqualHex(sig, HmacSha256Hex(FRONTEND_SHARED_SECRET, ts, raw))

\* server.js, second server: no timestamp window; timingSafeEqual throws on
\* buffers of different length, which the catch turns into false.
verifyHmac_s2(secret, timestamp, signature, rawBody) ==
  IF timestamp = NoHeader \/ signature.hex = NoHeader THEN FALSE
  ELSE timingSafeEqualHex(HmacSha256Hex(secret, timestamp, rawBody), signature)

\* server.js, third server
verifySignedBody(ts, sig, rawBody) ==
  IF ts = NoHeader \/ sig.hex = NoHeader THEN Fail("Missing signature headers")
  ELSE IF timingSafeEqualHex(HmacSha256Hex(FRONTEND_SHARED_SECRET, ts, rawBody), sig)
       THEN Ok ELSE Fail("Invalid signature")

----------------------------------------------------------------------------
(* part_002: DGU pricing, normalisation, skylight validation *)

\* Areas are in mm^2: 1 m^2 = 1,000,000 mm^2.
SquareMetre == 1000 * 1000
\* areaM2 * rate, in money units.
AreaTimesRate(areaMm2, rate) == (areaMm2 * rate) \div (SquareMetre \div Pound)

Band(min100, max100, rate) ==
  [min |-> min100 * (SquareMetre \div 100), max |-> max100 * (SquareMetre \div 100),
   rate |-> rate]

\* The first band that holds the area, 0 when none does.
RECURSIVE bandRate(_, _)
bandRate(areaMm2, bands) ==
  IF bands = <<>> THEN 0
  ELSE IF areaMm2 >= bands[1].min /\ areaMm2 <= bands[1].max THEN bands[1].rate
  ELSE bandRate(areaMm2, Tail(bands))

\* Band limits are written in hundredths of a square metre, prices in pence.
PRICING_TABLES ==
  [k \in {<<"4mm Clear", "4mm Clear">>, <<"4mm Clear", "4mm Softcoat">>,
          <<"6mm Clear", "6mm Clear">>, <<"6mm Clear", "6mm Softcoat">>} |->
    CASE k = <<"4mm Clear", "4mm Clear">> ->
           [minPrice |-> 4875 * Penny,
            bands |-> <<Band(0, 99, 125), Band(100, 149, 130), Band(150, 199, 135),
                        Band(200, 250, 140)>>]
      [] k = <<"4mm Clear", "4mm Softcoat">> ->
           [minPrice |-> 4875 * Penny,
            bands |-> <<Band(0, 49, 130), Band(50, 99, 132), Band(100, 149, 138),
                        Band(150, 199, 145), Band(200, 250, 152)>>]
      [] k = <<"6mm Clear", "6mm Clear">> ->
           [minPrice |-> 9575 * Penny,
            bands |-> <<Band(0, 49, 215), Band(50, 99, 255), Band(100, 149, 260),
                        Band(150, 199, 262), Band(200, 250, 265), Band(251, 300, 270)>>]
      [] OTHER ->
           [minPrice |-> 12775 * Penny,
            bands |-> <<Band(0, 49, 225), Band(50, 99, 270), Band(100, 149, 278),
                        Band(150, 199, 282), Band(200, 250, 285), Band(251, 300, 290)>>]]

SELF_CLEAN_BANDS ==
  <<Band(0, 49, 30), Band(50, 99, 38), Band(100, 149, 42), Band(150, 199, 45),
    Band(200, 250, 48), Band(251, 300, 52)>>

\* A variant of the price that applies the minimum price to the base cost
\* alone and adds the self-cleaning cost on top.
calcUnitPriceIncVatDGU_floorFirst(unit) ==
  IF \/ ~NumberIsFinite(unit.widthMm) \/ ~NumberIsFinite(unit.heightMm)
     \/ unit.widthMm.v <= 0 \/ unit.heightMm.v <= 0
  THEN 0
  ELSE LET areaMm2 == unit.widthMm.v * unit.heightMm.v
           key == <<unit.outerGlass, unit.innerGlass>>
       IN IF key \notin DOMAIN PRICING_TABLES THEN 0
          ELSE LET table == PRICING_TABLES[key]
                   baseRate == bandRate(areaMm2, table.bands)
                   selfRate == IF unit.selfCleaning = "Yes"
                               THEN bandRate(areaMm2, SELF_CLEAN_BANDS) ELSE 0
               IN IF baseRate = 0 THEN 0
                  ELSE Max(table.minPrice, AreaTimesRate(areaMm2, baseRate))
                       + AreaTimesRate(areaMm2, selfRate)

\* unit is a normalised unit: widthMm and heightMm are numbers or NaN.
calcUnitPriceIncVatDGU(unit) ==
  IF \/ ~NumberIsFinite(unit.widthMm) \/ ~NumberIsFinite(unit.heightMm)
     \/ unit.widthMm.v <= 0 \/ unit.heightMm.v <= 0
  THEN 0
  ELSE LET areaMm2 == unit.widthMm.v * unit.heightMm.v
           key == <<unit.outerGlass, unit.innerGlass>>
       IN IF key \notin DOMAIN PRICING_TABLES THEN 0
          ELSE LET table == PRICING_TABLES[key]
                   baseRate == bandRate(areaMm2, table.bands)
                   selfRate == IF unit.selfCleaning = "Yes"
                               THEN bandRate(areaMm2, SELF_CLEAN_BANDS) ELSE 0
               IN IF baseRate = 0 THEN 0
                  ELSE Max(table.minPrice, AreaTimesRate(areaMm2, baseRate + selfRate))

\* A variant of the clamp that adds a millimetre before it clamps.
ClampNumber_addOne(x, lo, hi) ==
  IF NumberIsFinite(x) THEN Num(Min(hi, Max(lo, x.v + 1))) ELSE NaN

\* Math.min(hi, Math.max(lo, x)): NaN stays NaN.
ClampNumber(x, lo, hi) == IF NumberIsFinite(x) THEN Num(Min(hi, Max(lo, x.v))) ELSE NaN

clampDimsDGU(w, h) == [w |-> ClampNumber(w, 150, 3000), h |-> ClampNumber(h, 150, 1732)]

\* A variant of the rule that upgrades only above 2.5 square metres.
applyAreaRuleDGU_above(unit) ==
  IF /\ NumberIsFinite(unit.widthMm) /\ NumberIsFinite(unit.heightMm)
     /\ 2 * unit.widthMm.v * unit.heightMm.v > 5 * SquareMetre
     /\ unit.outerGlass = "4mm Clear" /\ unit.innerGlass = "4mm Clear"
  THEN [unit EXCEPT !.outerGlass = "6mm Clear", !.innerGlass = "6mm Clear",
                    !._areaUpgradeApplied = TRUE]
  ELSE [unit EXCEPT !._areaUpgradeApplied = FALSE]

\* area >= 2.5 is false for a NaN area.
applyAreaRuleDGU(unit) ==
  IF /\ NumberIsFinite(unit.widthMm) /\ NumberIsFinite(unit.heightMm)
     /\ 2 * unit.widthMm.v * unit.heightMm.v >= 5 * SquareMetre
     /\ unit.outerGlass = "4mm Clear" /\ unit.innerGlass = "4mm Clear"
  THEN [unit EXCEPT !.outerGlass = "6mm Clear", !.innerGlass = "6mm Clear",
                    !._areaUpgradeApplied = TRUE]
  ELSE [unit EXCEPT !._areaUpgradeApplied = FALSE]

\* Math.min(10, Math.max(1, Number(q) || 1))
ClampQty(q) == Min(10, Max(1, NumberOr(q, 1)))

normalizeUnitDGU(raw) ==
  LET d == clampDimsDGU(Number(raw.widthMm), Number(raw.heightMm))
  IN applyAreaRuleDGU(
       [qty |-> ClampQty(raw.qty),
        outerGlass |-> StringOf(raw.outerGlass),
        innerGlass |-> StringOf(raw.innerGlass),
        selfCleaning |-> StringOf(raw.selfCleaning),
        widthMm |-> d.w, heightMm |-> d.h,
        _areaUpgradeApplied |-> FALSE])

\* toNum is Number(x) with every non-finite value NaN.
normalizeUnitSkylight(raw) ==
  [qty |-> ClampQty(raw.qty),
   internalW |-> Number(raw.internalWidthMm),
   internalH |-> Number(raw.internalHeightMm),
   unitPrice |-> Number(raw.unitPrice),
   lineTotal |-> Number(raw.lineTotal)]

\* A variant of the comparison that accepts any difference.
approxEqualMoney_any(a, b, tolerance) == Abs(a - b) >= 0

approxEqualMoney(a, b, tolerance) == Abs(a - b) <= tolerance

\* A variant of the validation without the rule for wide units.
validateSkylightUnit_noWideRule(u) ==
  /\ NumberIsFinite(u.internalW) /\ NumberIsFinite(u.internalH)
  /\ ~(u.internalW.v < 300 \/ u.internalW.v > 2000)
  /\ ~(u.internalH.v < 300 \/ u.internalH.v > 1200)
  /\ u.internalW.v * u.internalH.v > 0
  /\ u.internalW.v * u.internalH.v <= 3 * SquareMetre
  /\ NumberIsFinite(u.unitPrice) /\ u.unitPrice.v > 0
  /\ NumberIsFinite(u.lineTotal) /\ u.lineTotal.v > 0
  /\ approxEqualMoney(u.lineTotal.v, u.unitPrice.v * u.qty, 10 * Penny)

validateSkylightUnit(u) ==
  /\ NumberIsFinite(u.internalW) /\ NumberIsFinite(u.internalH)
  /\ ~(u.internalW.v < 300 \/ u.internalW.v > 2000)
  /\ ~(u.internalH.v < 300 \/ u.internalH.v > 1200)
  /\ ~(u.internalW.v > 1800 /\ u.internalH.v < 600)
  /\ u.internalW.v * u.internalH.v > 0
  /\ u.internalW.v * u.internalH.v <= 3 * SquareMetre
  /\ NumberIsFinite(u.unitPrice) /\ u.unitPrice.v > 0
  /\ NumberIsFinite(u.lineTotal) /\ u.lineTotal.v > 0
  /\ approxEqualMoney(u.lineTotal.v, u.unitPrice.v * u.qty, 10 * Penny)

----------------------------------------------------------------------------
(* server.js, first server: DGU pricing and normalisation *)

\* PRICING: BASE_RATE 150, MIN_PRICE 72.07, MM_FACTOR 0.002 (20 money units
\* a millimetre).
calcUnitPriceIncVat(unit) ==
  IF \/ ~NumberIsFinite(unit.widthMm) \/ ~NumberIsFinite(unit.heightMm)
     \/ unit.widthMm.v <= 0 \/ unit.heightMm.v <= 0
  THEN 0
  ELSE IF /\ unit.outerGlass = "4mm Clear" /\ unit.innerGlass = "4mm Clear"
          /\ unit.selfCleaning = "No"
       THEN Max(7207 * Penny, AreaTimesRate(unit.widthMm.v * unit.heightMm.v, 150))
            + (unit.widthMm.v + unit.heightMm.v) * 20
       ELSE 0

clampDims(w, h) == [w |-> ClampNumber(w, 150, 2000), h |-> ClampNumber(h, 150, 3000)]

\* AREA_LIMIT 2.5
applyAreaRule(unit) ==
  IF /\ NumberIsFinite(unit.widthMm) /\ NumberIsFinite(unit.heightMm)
     /\ 2 * unit.widthMm.v * unit.heightMm.v >= 5 * SquareMetre
     /\ unit.outerGlass = "4mm Clear" /\ unit.innerGlass = "4mm Clear"
  THEN [unit EXCEPT !.outerGlass = "6mm Clear", !.innerGlass = "6mm Clear",
                    !._areaUpgradeApplied = TRUE]
  ELSE [unit EXCEPT !._areaUpgradeApplied = FALSE]

normalizeUnit(raw) ==
  LET d == clampDims(Number(raw.widthMm), Number(raw.heightMm))
  IN applyAreaRule(
       [qty |-> ClampQty(raw.qty),
        outerGlass |-> StrOr(raw.outerGlass, ""),
        innerGlass |-> StrOr(raw.innerGlass, ""),
        selfCleaning |-> StrOr(raw.selfCleaning, "No"),
        widthMm |-> d.w, heightMm |-> d.h,
        _areaUpgradeApplied |-> FALSE])

----------------------------------------------------------------------------
(* Requests, platform calls and responses *)

Request(origin, ts, sig, body) == [origin |-> origin, ts |-> ts, sig |-> sig, body |-> body]
NoReq == Request("", NoHeader, NoSig, EmptyBody)

\* A line item of the DraftOrderInput: its quantity and its unit price in
\* pence (Undef when the item carries no price); anchor tells the anchor
\* item that only carries the product image.
LineItem(quantity, price, anchor) == [quantity |-> quantity, price |-> price, anchor |-> anchor]

\* What the create mutation carries: the totals written in the note, the
\* totals written in attributes, and the line items.  Money is in pence.
NoInput == [noteGrandTotal |-> Undef, noteTotalUnits |-> Undef,
            attrGrandTotal |-> Undef, attrTotalUnits |-> Undef,
            lineItems |-> <<>>]

NoId == "none"
\* The payload of the create response: the draft order's id and whether it
\* carries an invoice URL, and whether the userErrors list is non-empty.
NoOrder == [id |-> NoId, invoiceUrl |-> FALSE, userErrors |-> FALSE]

\* A response: status, reason, and the fields of the JSON body the claims
\* read.  grandTotal is in pence.
\* message is the text of a caught exception when the response carries one.
Response(status, reason) ==
  [status |-> status, reason |-> reason, grandTotal |-> Undef,
   totalUnitsQty |-> Undef, draftOrderId |-> NoId, invoiceUrl |-> FALSE,
   message |-> ""]
NoRes == Response(0, "")

\* The result of a handler's synchronous part: it answers, or it sends the
\* create mutation and awaits the platform.
Answer(a, sb, r) == [kind |-> "answer", auth |-> a, signedBody |-> sb, res |-> r, input |-> NoInput]
Create(a, sb, in) == [kind |-> "create", auth |-> a, signedBody |-> sb, res |-> NoRes, input |-> in]

NotChecked == Fail("not checked")

\* express.json() answers a body that is no JSON with 400 before any handler.
BodyParserError == Answer(NotChecked, EmptyBody, Response(400, "entity.parse.failed"))

\* What the platform may answer to the create mutation: a transport or
\* GraphQL error (the call throws), userErrors, a draft order with or
\* without its invoice URL, or a payload with neither order nor errors.
CreateOutcomes == {"throw", "userErrors", "order_url", "order_nourl", "empty"}
\* What it may answer to an invoice lookup.
LookupOutcomes == {"throw", "url", "nourl"}

Created(outcome) == outcome \in {"order_url", "order_nourl"}

----------------------------------------------------------------------------
(* part_000 *)

\* express.raw leaves req.body a Buffer; with no bytes to read body-parser
\* leaves req.body as it was: {} (express 4, String({}) is no JSON) or
\* undefined (express 5, read as ""), which the sources do not settle.
parseJsonRaw(buf, noBody) ==
  CASE buf.kind = "malformed" -> [ok |-> FALSE, raw |-> buf, json |-> EmptyObject]
    [] buf.kind = "empty" /\ noBody = "object" -> [ok |-> FALSE, raw |-> buf, json |-> EmptyObject]
    [] buf.kind = "empty" -> [ok |-> TRUE, raw |-> buf, json |-> EmptyObject]
    [] OTHER -> [ok |-> TRUE, raw |-> buf, json |-> JsonParse(buf)]

\* formatMoney of a number: toFixed(2), in pence.
formatMoney(n) == ToFixed2(n)

buildDraftOrderLineItems(units) ==
  [i \in DOMAIN units |->
     LineItem(1, Num(formatMoney(NumberOr(units[i].lineTotal, 0))), FALSE)]

\* The anchor variant: the skylight one for "skylight" in any letter case,
\* the DGU one for everything else.
pickAnchorVariant(calculatorType) ==
  IF ToLowerCase(StrOr(calculatorType, "")) = "skylight" THEN "skylight" ELSE "dgu"

\* The first letter in upper case.
capLabel(x) == CASE x = "dgu" -> "Dgu"
                 [] x = "skylight" -> "Skylight"
                 [] x = "window" -> "Window"
                 [] x = NoStr -> ""
                 [] OTHER -> x

\* The layout of the unit summary: the skylight one for "skylight" in any
\* letter case, the DGU one for everything else.
buildUnitSummaryString(calculatorType) ==
  IF ToLowerCase(StrOr(calculatorType, "")) = "skylight" THEN "skylight" ELSE "dgu"

\* Where the calculator type of a request goes in the create mutation: the
\* anchor variant, the Calculator attribute and the summary of every line
\* item, the note and the tags.
CalculatorUses(calculatorType) ==
  [anchor |-> pickAnchorVariant(calculatorType),
   attribute |-> capLabel(calculatorType),
   summary |-> buildUnitSummaryString(calculatorType),
   note |-> StringOf(calculatorType),
   tag |-> ToLowerCase(StringOf(calculatorType))]

Checkout000(r, clock, noBody) ==
  LET parsed == parseJsonRaw(r.body, noBody) IN
  IF ~parsed.ok THEN Answer(NotChecked, EmptyBody, Response(400, "bad_json"))
  ELSE
  LET rawBody == parsed.raw
      body == parsed.json
      ok == verifyHmac(FRONTEND_SHARED_SECRET, r.ts, rawBody, r.sig, MAX_SKEW_MS, clock)
  IN
  IF ~ok.ok THEN Answer(ok, rawBody, Response(401, ok.reason))
  ELSE
  LET units == body.units
      calculatorType == StrOr(body.calculatorType, "dgu")
  IN
  IF units = <<>> THEN Answer(ok, rawBody, Response(400, "units_empty"))
  ELSE
  LET payloadGrandTotal == Number(body.grandTotal)
      computedGrandTotal == SeqSum([i \in DOMAIN units |-> NumberOr(units[i].lineTotal, 0)])
      grandTotal == IF NumberIsFinite(payloadGrandTotal) THEN payloadGrandTotal.v
                    ELSE computedGrandTotal
      totalUnitsQty == NumberOr(body.totalUnitsQty,
                                SeqSum([i \in DOMAIN units |-> NumberOr(units[i].qty, 0)]))
  IN Create(ok, rawBody,
            [NoInput EXCEPT !.noteGrandTotal = Num(ToFixed2(grandTotal)),
                            !.noteTotalUnits = Num(totalUnitsQty),
                            !.lineItems = buildDraftOrderLineItems(units)]
              @@ [calculator |-> CalculatorUses(calculatorType)])

----------------------------------------------------------------------------
(* part_001 *)

\* Number(n) when finite, else the fallback.
safeNum(n, fallback) == IF NumberIsFinite(Number(n)) THEN Number(n).v ELSE fallback

\* money2: Math.round(x * 100) / 100, then toFixed(2); in pence.
money2(n) == MathRound100(n)

\* The anchor item, discounted 100%, then one custom item a unit.  Quantities
\* of the inputs are whole numbers, so Math.floor leaves them.
buildDraftOrderLineItems_p001(units) ==
  <<LineItem(1, Undef, TRUE)>> \o
  [i \in DOMAIN units |->
     LineItem(Max(1, Min(10, safeNum(units[i].qty, 1))),
              Num(money2(safeNum(units[i].unitPrice, 0))), FALSE)]

computeGrandTotals(units) ==
  [totalUnitsQty |-> SeqSum([i \in DOMAIN units |-> Max(0, safeNum(units[i].qty, 0))]),
   grandTotal |-> SeqSum([i \in DOMAIN units |-> safeNum(units[i].lineTotal, 0)])]

\* req.rawBody || "": the verify hook does not run for a request without body.
RawBodyOrEmpty(b) == IF b.kind = "empty" THEN EmptyBody ELSE b

Checkout001(r, clock) ==
  IF r.body.kind = "malformed" THEN BodyParserError
  ELSE
  LET rawBody == RawBodyOrEmpty(r.body)
      sigCheck == verifySignature(r.ts, r.sig, rawBody, clock)
  IN
  IF ~sigCheck.ok THEN Answer(sigCheck, rawBody, Response(401, sigCheck.reason))
  ELSE
  LET body == JsonParse(r.body)
      units == body.units
  IN
  IF units = <<>> THEN Answer(sigCheck, rawBody, Response(400, "No units provided"))
  ELSE
  LET computed == computeGrandTotals(units)
      grandTotal == computed.grandTotal
      totalUnitsQty == safeNum(body.totalUnitsQty, computed.totalUnitsQty)
  IN Create(sigCheck, rawBody,
            [noteGrandTotal |-> Num(money2(grandTotal)),
             noteTotalUnits |-> Num(totalUnitsQty),
             attrGrandTotal |-> Num(money2(grandTotal)),
             attrTotalUnits |-> Num(totalUnitsQty),
             lineItems |-> buildDraftOrderLineItems_p001(units)])

----------------------------------------------------------------------------
(* part_003 *)

\* A string is converted with Number; a value that is not finite gives the
\* fallback.
safeNum_p003(n, fallback) == IF NumberIsFinite(Number(n)) THEN Number(n).v ELSE fallback

clamp(n, min, max) == Min(max, Max(min, n))

calcGrandTotalFromUnits(units) ==
  SeqSum([i \in DOMAIN units |->
            safeNum_p003(units[i].lineTotal,
                         safeNum_p003(units[i].unitPrice, 0) * safeNum_p003(units[i].qty, 1))])

Checkout003(r, clock) ==
  IF r.body.kind = "malformed" THEN BodyParserError
  ELSE
  LET ts == r.ts
      sig == r.sig
      rawBody == RawBodyOrEmpty(r.body)
  IN
  IF ts = NoHeader \/ sig.hex = NoHeader \/ rawBody.kind = "empty"
  THEN Answer(Fail("Missing signature headers or body"), rawBody,
              Response(400, "Missing signature headers or body"))
  ELSE
  LET tsNum == StringToNumber(ts) IN
  IF ~NumberIsFinite(tsNum) \/ Abs(clock - tsNum.v) > REPLAY_WINDOW_MS
  THEN Answer(Fail("Timestamp out of range"), rawBody, Response(401, "Timestamp out of range"))
  ELSE
  IF ~timingSafeEqualHex(HmacSha256Hex(FRONTEND_SHARED_SECRET, ts, rawBody), sig)
  THEN Answer(Fail("Invalid signature"), rawBody, Response(401, "Invalid signature"))
  ELSE
  LET body == JsonParse(r.body)
      calculatorType == ToLowerCase(StrOr(body.calculatorType, ""))
      units == body.units
  IN
  IF calculatorType \notin {"dgu", "skylight"}
  THEN Answer(Ok, rawBody, Response(400, "Invalid calculatorType"))
  ELSE IF units = <<>> THEN Answer(Ok, rawBody, Response(400, "No units provided"))
  ELSE
  LET grandTotal == calcGrandTotalFromUnits(units)
      totalUnitsQty == clamp(safeNum_p003(body.totalUnitsQty, 0), 0, 9999)
  IN
  IF ~(grandTotal > 0) THEN Answer(Ok, rawBody, Response(400, "Grand total is zero"))
  ELSE Create(Ok, rawBody,
              [noteGrandTotal |-> Num(money2(grandTotal)),
               noteTotalUnits |->
                 Num(IF totalUnitsQty # 0 THEN totalUnitsQty
                     ELSE SeqSum([i \in DOMAIN units |-> safeNum_p003(units[i].qty, 0)])),
               attrGrandTotal |-> Num(money2(grandTotal)),
               attrTotalUnits |-> IF totalUnitsQty # 0 THEN Num(totalUnitsQty) ELSE Undef,
               lineItems |-> <<LineItem(1, Num(money2(grandTotal)), TRUE)>>])

----------------------------------------------------------------------------
(* part_002 *)

\* A variant of the DGU loop that takes the client's lineTotal where there is
\* one; the advisory-fields property tells it from the code.
sumUnitPricesDGU_clientTotals(unitsRaw) ==
  LET units == [i \in DOMAIN unitsRaw |-> normalizeUnitDGU(unitsRaw[i])]
  IN SeqSum([i \in DOMAIN units |->
               NumberOr(unitsRaw[i].lineTotal,
                        calcUnitPriceIncVatDGU(units[i]) * units[i].qty)])

\* A variant of the DGU loop that prices every unit under the glass the
\* client sent, before the area rule.
sumUnitPricesDGU_rawGlass(unitsRaw) ==
  LET units == [i \in DOMAIN unitsRaw |-> normalizeUnitDGU(unitsRaw[i])]
  IN SeqSum([i \in DOMAIN units |->
               calcUnitPriceIncVatDGU(
                 [units[i] EXCEPT !.outerGlass = StringOf(unitsRaw[i].outerGlass),
                                  !.innerGlass = StringOf(unitsRaw[i].innerGlass)])
               * units[i].qty])

\* The DGU loop: every unit is normalised and priced by the server, and
\* grandTotal += unitPrice * u.qty.
sumUnitPricesDGU(unitsRaw) ==
  LET units == [i \in DOMAIN unitsRaw |-> normalizeUnitDGU(unitsRaw[i])]
  IN SeqSum([i \in DOMAIN units |-> calcUnitPriceIncVatDGU(units[i]) * units[i].qty])

RECURSIVE AllValid(_)
AllValid(units) == units = <<>> \/ (validateSkylightUnit(units[1]) /\ AllValid(Tail(units)))

Checkout002(r) ==
  IF r.body.kind = "malformed" THEN BodyParserError
  ELSE IF r.origin # ALLOWED_ORIGIN THEN Answer(NotChecked, EmptyBody, Response(403, "Forbidden"))
  ELSE IF r.ts # NoHeader /\ r.sig.hex # NoHeader /\ r.body.kind = "empty"
       \* req.rawBody is undefined: req.rawBody.toString throws, caught as 500
       THEN Answer(NotChecked, EmptyBody, Response(500, "Server error"))
  ELSE IF ~verifyFrontendSignature(r.ts, r.sig, r.body)
       THEN Answer(Fail("Invalid signature"), r.body, Response(401, "Invalid signature"))
  ELSE
  LET body == JsonParse(r.body)
      calculatorTypeRaw == ToLowerCase(StrOr(body.calculatorType, ""))
      calculatorType == IF calculatorTypeRaw = "skylight" THEN "skylight" ELSE "dgu"
      unitsRaw == body.units
  IN
  IF unitsRaw = <<>> THEN Answer(Ok, r.body, Response(400, "Missing units"))
  ELSE IF calculatorType = "skylight" THEN
    LET units == [i \in DOMAIN unitsRaw |-> normalizeUnitSkylight(unitsRaw[i])] IN
    IF ~AllValid(units) THEN Answer(Ok, r.body, Response(422, "Unpriced configuration"))
    ELSE
    LET totalUnits == SeqSum([i \in DOMAIN units |-> units[i].qty])
        grandTotal == ToFixed2(SeqSum([i \in DOMAIN units |-> units[i].lineTotal.v]))
    IN IF ~(grandTotal > 0) \/ ~(totalUnits > 0)
       THEN Answer(Ok, r.body, Response(422, "Unpriced configuration"))
       ELSE Create(Ok, r.body,
                   [NoInput EXCEPT !.attrGrandTotal = Num(grandTotal),
                                   !.attrTotalUnits = Num(totalUnits),
                                   !.lineItems = <<LineItem(1, Num(grandTotal), TRUE)>>])
  ELSE
    LET units == [i \in DOMAIN unitsRaw |-> normalizeUnitDGU(unitsRaw[i])]
        sum == sumUnitPricesDGU(unitsRaw)
    IN
    IF sum <= 0 THEN Answer(Ok, r.body, Response(422, "Unpriced configuration"))
    ELSE
    LET totalUnits == SeqSum([i \in DOMAIN units |-> units[i].qty])
        grandTotal == ToFixed2(sum)
    IN IF ~(grandTotal > 0) \/ ~(totalUnits > 0)
       THEN Answer(Ok, r.body, Response(422, "Unpriced configuration"))
       ELSE Create(Ok, r.body,
                   [NoInput EXCEPT !.attrGrandTotal = Num(grandTotal),
                                   !.attrTotalUnits = Num(totalUnits),
                                   !.lineItems = <<LineItem(1, Num(grandTotal), TRUE)>>])

----------------------------------------------------------------------------
(* part_004 *)

\* The skylight loop: a unit without a positive qty and unitPrice stops it.
RECURSIVE AllPriced004(_)
AllPriced004(units) ==
  \/ units = <<>>
  \/ /\ ~(NumberOr(units[1].qty, 0) <= 0 \/ NumberOr(units[1].unitPrice, 0) <= 0)
     /\ AllPriced004(Tail(units))

Checkout004(r) ==
  IF r.body.kind = "malformed" THEN BodyParserError
  ELSE IF r.origin # ALLOWED_ORIGIN THEN Answer(NotChecked, EmptyBody, Response(403, "Forbidden"))
  ELSE IF r.ts # NoHeader /\ r.sig.hex # NoHeader /\ r.body.kind = "empty"
       \* req.rawBody is undefined: req.rawBody.toString throws, caught as 500
       THEN Answer(NotChecked, EmptyBody, Response(500, "Server error"))
  ELSE IF ~verifyFrontendSignature(r.ts, r.sig, r.body)
       THEN Answer(Fail("Invalid signature"), r.body, Response(401, "Invalid signature"))
  ELSE
  LET calculatorType == JsonParse(r.body).calculatorType
      units == JsonParse(r.body).units
  IN
  IF units = <<>> THEN Answer(Ok, r.body, Response(400, "Missing units"))
  ELSE IF calculatorType = "skylight" THEN
    IF ~AllPriced004(units) THEN Answer(Ok, r.body, Response(422, "Unpriced configuration"))
    ELSE
    LET grandTotal == SeqSum([i \in DOMAIN units |->
                                NumberOr(units[i].unitPrice, 0) * NumberOr(units[i].qty, 0)])
        totalUnits == SeqSum([i \in DOMAIN units |-> NumberOr(units[i].qty, 0)])
    IN Create(Ok, r.body,
              [NoInput EXCEPT !.attrGrandTotal = Num(ToFixed2(grandTotal)),
                              !.attrTotalUnits = Num(totalUnits),
                              !.lineItems = <<LineItem(1, Num(ToFixed2(grandTotal)), TRUE)>>])
  ELSE Answer(Ok, r.body, Response(422, "Unknown calculator type"))

----------------------------------------------------------------------------
(* server.js: the three servers *)

Checkout_s1(r, clock) ==
  IF r.body.kind = "malformed" THEN BodyParserError
  ELSE IF r.origin # ALLOWED_ORIGIN
       THEN Answer(NotChecked, EmptyBody, Response(403, "Origin not allowed"))
  ELSE
  LET raw == RawBodyOrEmpty(r.body)
      sigOk == verifyFrontendSignature_s1(r.ts, r.sig, raw, clock)
  IN
  IF ~sigOk.ok THEN Answer(sigOk, raw, Response(401, sigOk.reason))
  ELSE
  LET unitsRaw == JsonParse(r.body).units IN
  IF unitsRaw = <<>> THEN Answer(sigOk, raw, Response(400, "Missing units[]"))
  ELSE
  LET units == [i \in DOMAIN unitsRaw |-> normalizeUnit(unitsRaw[i])]
      grossTotal == ToFixed2(SeqSum([i \in DOMAIN units |->
                                       calcUnitPriceIncVat(units[i]) * units[i].qty]))
  IN IF grossTotal <= 0 THEN Answer(sigOk, raw, Response(422, "unpriced"))
     ELSE Create(sigOk, raw,
                 [NoInput EXCEPT !.attrGrandTotal = Num(grossTotal),
                                 !.attrTotalUnits = Num(Len(units)),
                                 !.lineItems = <<LineItem(1, Num(grossTotal), FALSE)>>])

\* roundMoney: 0 for a value that is not finite, else Math.round(x * 100) / 100;
\* in pence.
roundMoney(n) == IF NumberIsFinite(Number(n)) THEN MathRound100(Number(n).v) ELSE 0

sumLineTotals(units) ==
  MathRound100(SeqSum([i \in DOMAIN units |-> NumberOr(units[i].lineTotal, 0)]))

\* The states the generator behind Math.random() may be in when the builder
\* is called; its i-th draw is determined by the state and i.
MathRandom == {"1f3a", "c07e"}

\* Every line carries a uuid made of the clock, the index of the unit and a
\* random number.
buildDraftLineItemsFromUnits(units, clock, rnd) ==
  [i \in DOMAIN units |->
     LineItem(Max(1, NumberOr(units[i].qty, 1)), Num(roundMoney(units[i].unitPrice)), FALSE)
       @@ [uuid |-> <<clock, i - 1, <<rnd, i>>>>]]

Checkout_s2(r, clock, rnd) ==
  IF r.body.kind = "malformed" THEN BodyParserError
  ELSE
  LET rawBody == JsonStringify(JsonParse(r.body))
      ok == verifyHmac_s2(FRONTEND_SHARED_SECRET, r.ts, r.sig, rawBody)
  IN
  IF ~ok THEN Answer(Fail("Invalid signature"), rawBody, Response(401, "Invalid signature"))
  ELSE
  LET body == JsonParse(r.body)
      units == body.units
  IN
  IF units = <<>> THEN Answer(Ok, rawBody, Response(400, "No units provided"))
  ELSE
  LET providedGrand == roundMoney(body.grandTotal)
      computedGrand == sumLineTotals(units)
      grandTotal == IF providedGrand > 0 THEN providedGrand ELSE computedGrand
  IN Create(Ok, rawBody,
            [NoInput EXCEPT !.noteGrandTotal = Num(grandTotal),
                            !.lineItems = buildDraftLineItemsFromUnits(units, clock, rnd)])

calcGrandTotalFromPayload(body) ==
  LET gt == Number(body.grandTotal) IN
  IF NumberIsFinite(gt) /\ gt.v >= 0 THEN gt.v
  ELSE SeqSum([i \in DOMAIN body.units |->
                 NumberOr(body.units[i].qty, 0) * NumberOr(body.units[i].unitPrice, 0)])

\* money2 of the third server: toFixed(2), "0.00" for a value that is not
\* finite; in pence.
money2_s3(n) == IF NumberIsFinite(Number(n)) THEN ToFixed2(Number(n).v) ELSE 0

\* u.f for a text property and for a numeric property of a unit; a unit
\* without the property gives undefined.
TextOf(u, f) == IF f \in DOMAIN u THEN u[f] ELSE NoStr
NumberOf(u, f) == IF f \in DOMAIN u THEN u[f] ELSE Undef

safeStr(v) == IF v = NoStr THEN "" ELSE v

\* trim on the texts of the inputs.
Trim(x) == CASE x \in {" ", "  "} -> ""
             [] x = " Yes " -> "Yes"
             [] OTHER -> x

\* Number(x ?? 0), and the text "<h>mm x <w>mm" when both are positive.
NumberOrZero(x) == IF x = Undef THEN Num(0) ELSE Number(x)
SizeText(h, w) ==
  IF NumberIsFinite(h) /\ h.v > 0 /\ NumberIsFinite(w) /\ w.v > 0
  THEN ToString(h.v) \o "mm x " \o ToString(w.v) \o "mm"
  ELSE ""

dguSizeValue(u) ==
  SizeText(NumberOrZero(NumberOf(u, "heightMm")), NumberOrZero(NumberOf(u, "widthMm")))
skylightInternalValue(u) ==
  SizeText(NumberOrZero(NumberOf(u, "heightMm")), NumberOrZero(NumberOf(u, "widthMm")))
skylightExternalValue(u) ==
  SizeText(NumberOrZero(NumberOf(u, "extHeightMm")), NumberOrZero(NumberOf(u, "extWidthMm")))

pushAttr(attrs, name, value) ==
  LET v == Trim(safeStr(value)) IN
  IF v = "" THEN attrs ELSE Append(attrs, [key |-> name, value |-> v])

RECURSIVE pushAttrs(_, _)
pushAttrs(attrs, pairs) ==
  IF pairs = <<>> THEN attrs
  ELSE pushAttrs(pushAttr(attrs, pairs[1][1], pairs[1][2]), Tail(pairs))

buildDguAttributes(u) ==
  pushAttrs(<<>>,
    << <<"Calculator", "DGU">>,
       <<"Size", dguSizeValue(u)>>,
       <<"Outer Glass", TextOf(u, "outerGlass")>>,
       <<"Cavity", TextOf(u, "cavity")>>,
       <<"Inner Glass", TextOf(u, "innerGlass")>>,
       <<"Spacer Colour", TextOf(u, "spacerColour")>>,
       <<"Gas Fill", TextOf(u, "gasFill")>>,
       <<"Warm Edge", TextOf(u, "warmEdge")>>,
       <<"Self Cleaning", TextOf(u, "selfCleaning")>>,
       <<"Solar Control", TextOf(u, "solarControl")>>,
       <<"Tint", TextOf(u, "tint")>> >>)

buildSkylightAttributes(u) ==
  pushAttrs(<<>>,
    << <<"Calculator", "Skylight">>,
       <<"Internal", skylightInternalValue(u)>>,
       <<"Unit Strength", TextOf(u, "unitStrength")>>,
       <<"Glazing", TextOf(u, "glazing")>>,
       <<"Tint", TextOf(u, "tint")>> >>
    \o (IF Trim(safeStr(TextOf(u, "solarControl"))) = "Yes"
        THEN << <<"Solar Control", "Yes">> >> ELSE <<>>)
    \o (IF Trim(safeStr(TextOf(u, "selfCleaning"))) = "Yes"
        THEN << <<"Self Cleaning", "Yes">> >> ELSE <<>>)
    \o << <<"External", skylightExternalValue(u)>> >>)

buildLineItemsFromPayload(body) ==
  LET calculatorType == Trim(ToLowerCase(safeStr(body.calculatorType))) IN
  <<LineItem(1, Num(0), TRUE)>> \o
  [i \in DOMAIN body.units |->
     LineItem(Max(1, Min(100, NumberOr(body.units[i].qty, 1))),
              Num(money2_s3(body.units[i].unitPrice)), FALSE)
       @@ [customAttributes |->
             IF calculatorType = "skylight" THEN buildSkylightAttributes(body.units[i])
             ELSE buildDguAttributes(body.units[i])]]

Checkout_s3(r) ==
  IF r.body.kind = "malformed" THEN BodyParserError
  ELSE
  LET rawBody == JsonStringify(JsonParse(r.body))
      sig == verifySignedBody(r.ts, r.sig, rawBody)
  IN
  IF ~sig.ok THEN Answer(sig, rawBody, Response(401, sig.reason))
  ELSE
  LET body == JsonParse(r.body)
      totalUnitsQty == NumberOr(body.totalUnitsQty, 0)
      grandTotal == calcGrandTotalFromPayload(body)
  IN Create(sig, rawBody,
            [NoInput EXCEPT !.noteGrandTotal = Num(ToFixed2(grandTotal)),
                            !.noteTotalUnits = Num(totalUnitsQty),
                            !.lineItems = buildLineItemsFromPayload(body)])

----------------------------------------------------------------------------
(* The state machine *)

Init ==
  /\ handler = "none" /\ req = NoReq /\ now = BaseClock /\ pc = "idle"
  /\ auth = NotChecked /\ signedBody = EmptyBody /\ input = NoInput
  /\ nCreate = 0 /\ nLookup = 0 /\ order = NoOrder /\ res = NoRes /\ drafts = 0

\* The clock advances between requests.
Tick ==
  /\ pc = "idle" /\ now < BaseClock + MaxTick
  /\ now' = now + 1
  /\ UNCHANGED <<handler, req, pc, auth, signedBody, input, nCreate, nLookup, order, res, drafts>>

\* A request arrives at server h and the handler runs up to its response or
\* up to the await of the create mutation.
Receive(h, r, out) ==
  /\ pc = "idle" /\ drafts < MaxDrafts
  /\ handler' = h /\ req' = r
  /\ auth' = out.auth /\ signedBody' = out.signedBody
  /\ input' = out.input /\ res' = out.res
  /\ pc' = IF out.kind = "create" THEN "create" ELSE "done"
  /\ nCreate' = IF out.kind = "create" THEN 1 ELSE 0
  /\ UNCHANGED <<now, nLookup, order, drafts>>

\* The handler has answered; the server is ready for the next request.
Finish ==
  /\ pc = "done"
  /\ handler' = "none" /\ req' = NoReq /\ pc' = "idle"
  /\ auth' = NotChecked /\ signedBody' = EmptyBody /\ input' = NoInput
  /\ nCreate' = 0 /\ nLookup' = 0 /\ order' = NoOrder /\ res' = NoRes
  /\ UNCHANGED <<now, drafts>>

\* The platform holds one more draft order when it answers with one.
PlatformAnswers(h, outcome) ==
  /\ pc = "create" /\ handler = h
  /\ drafts' = IF Created(outcome) THEN drafts + 1 ELSE drafts
  /\ order' = IF Created(outcome)
               THEN [id |-> "gid", invoiceUrl |-> outcome = "order_url", userErrors |-> FALSE]
               ELSE [NoOrder EXCEPT !.userErrors = outcome = "userErrors"]

Done(r) == pc' = "done" /\ res' = r

\* fetchInvoiceUrlWithRetry(draftOrderId, 10, 250)
INVOICE_ATTEMPTS == 10

\* The messages of the errors shopifyGraphql throws: the one of a failed
\* fetch, and the ones it makes of the platform's response body.
ThrownMessages ==
  {"fetch failed",
   "Shopify GraphQL HTTP 401: {errors: [API] Invalid API key or access token}",
   "Shopify GraphQL errors: [{message: Throttled}]"}

\* The catch block of part_000: 500 with err.message.
Caught000 == \E m \in ThrownMessages : Done([Response(500, "Server error") EXCEPT !.message = m])

Receive000(r) == \E noBody \in {"object", "undefined"} : Receive("p000", r, Checkout000(r, now, noBody))

\* The request just answered is delivered once more at the same clock (a
\* client's retry, a duplicated delivery) and handled like any request: the
\* handler keeps no record of the requests it has served.  The platform
\* still holds what the first handling created, and may be asked for one
\* order more than new requests alone could create.
Redeliver000 ==
  /\ pc = "done" /\ handler = "p000" /\ drafts <= MaxDrafts
  /\ \E noBody \in {"object", "undefined"} :
       LET out == Checkout000(req, now, noBody) IN
       /\ auth' = out.auth /\ signedBody' = out.signedBody
       /\ input' = out.input /\ res' = out.res
       /\ pc' = IF out.kind = "create" THEN "create" ELSE "done"
       /\ nCreate' = IF out.kind = "create" THEN 1 ELSE 0
  /\ nLookup' = 0
  /\ UNCHANGED <<handler, req, now, order, drafts>>

\* A variant of the handler that sends the create mutation once more when
\* the call throws; the single-create property tells it from the code.
CreateReturn000_retry(outcome) ==
  /\ PlatformAnswers("p000", outcome)
  /\ IF outcome = "throw" /\ nCreate < 2
     THEN pc' = "create" /\ res' = res /\ nCreate' = nCreate + 1
     ELSE Caught000 /\ nCreate' = nCreate
  /\ UNCHANGED <<handler, req, now, auth, signedBody, input, nLookup>>

CreateReturn000(outcome) ==
  /\ PlatformAnswers("p000", outcome)
  /\ CASE outcome = "throw" -> Caught000 /\ nLookup' = nLookup
       [] outcome = "userErrors" -> Done(Response(400, "Shopify userErrors")) /\ nLookup' = nLookup
       [] outcome = "order_url" ->
            /\ Done([Response(200, "") EXCEPT !.invoiceUrl = TRUE, !.draftOrderId = "gid"])
            /\ nLookup' = nLookup
       [] outcome = "order_nourl" ->
            \* for (i = 0; i < attempts; i++): the first lookup is sent
            IF 0 < INVOICE_ATTEMPTS
            THEN pc' = "lookup" /\ nLookup' = 1 /\ res' = res
            ELSE /\ Done([Response(502, "invoiceUrl_null") EXCEPT !.draftOrderId = "gid"])
                 /\ nLookup' = nLookup
       [] OTHER -> Done(Response(502, "invoiceUrl_null")) /\ nLookup' = nLookup
  /\ UNCHANGED <<handler, req, now, auth, signedBody, input, nCreate>>

\* A variant of the polling loop that sends one query more than attempts
\* (i <= attempts); the bounded-polling property tells it from the code.
LookupReturn000_oneMore(outcome) ==
  /\ pc = "lookup" /\ handler = "p000"
  /\ CASE outcome = "throw" -> Caught000 /\ nLookup' = nLookup
       [] outcome = "url" ->
            /\ Done([Response(200, "") EXCEPT !.invoiceUrl = TRUE, !.draftOrderId = order.id])
            /\ nLookup' = nLookup
       [] OTHER ->
            IF nLookup <= INVOICE_ATTEMPTS
            THEN pc' = "lookup" /\ nLookup' = nLookup + 1 /\ res' = res
            ELSE /\ Done([Response(502, "invoiceUrl_null") EXCEPT !.draftOrderId = order.id])
                 /\ nLookup' = nLookup
  /\ UNCHANGED <<handler, req, now, auth, signedBody, input, nCreate, order, drafts>>

LookupReturn000(outcome) ==
  /\ pc = "lookup" /\ handler = "p000"
  /\ CASE outcome = "throw" -> Caught000 /\ nLookup' = nLookup
       [] outcome = "url" ->
            /\ Done([Response(200, "") EXCEPT !.invoiceUrl = TRUE, !.draftOrderId = order.id])
            /\ nLookup' = nLookup
       [] OTHER ->
            IF nLookup < INVOICE_ATTEMPTS
            THEN pc' = "lookup" /\ nLookup' = nLookup + 1 /\ res' = res
            ELSE /\ Done([Response(502, "invoiceUrl_null") EXCEPT !.draftOrderId = order.id])
                 /\ nLookup' = nLookup
  /\ UNCHANGED <<handler, req, now, auth, signedBody, input, nCreate, order, drafts>>

\* The handlers that send one create mutation and no lookup: the call
\* throws (500), the platform reports userErrors (status ue), the draft
\* order carries its invoice URL (200), or it does not (500).
CreateReturn(h, outcome, ue) ==
  /\ PlatformAnswers(h, outcome)
  /\ CASE outcome = "throw" -> Done(Response(500, "Server error"))
       [] outcome = "userErrors" -> Done(Response(ue, "userErrors"))
       [] outcome = "order_url" ->
            Done([Response(200, "") EXCEPT
                    !.invoiceUrl = TRUE,
                    !.grandTotal = IF h \in {"p001", "p003"} THEN input.noteGrandTotal
                                   ELSE IF h \in {"p002", "s1"} THEN input.attrGrandTotal
                                   ELSE Undef,
                    !.totalUnitsQty = IF h = "p001" THEN input.noteTotalUnits ELSE Undef])
       [] OTHER -> Done(Response(500, "invoiceUrl missing"))
  /\ UNCHANGED <<handler, req, now, auth, signedBody, input, nCreate, nLookup>>

Receive001(r) == Receive("p001", r, Checkout001(r, now))
CreateReturn001(outcome) == CreateReturn("p001", outcome, 400)

Receive002(r) == Receive("p002", r, Checkout002(r))
CreateReturn002(outcome) == CreateReturn("p002", outcome, 422)

Receive003(r) == Receive("p003", r, Checkout003(r, now))
CreateReturn003(outcome) == CreateReturn("p003", outcome, 400)

Receive004(r) == Receive("p004", r, Checkout004(r))

\* data.draftOrderCreate.draftOrder is read without a look at userErrors:
\* with no draft order in the payload draft.invoiceUrl throws, caught as
\* 500; a draft order without invoice URL is answered 200 all the same.
CreateReturn004(outcome) ==
  /\ PlatformAnswers("p004", outcome)
  /\ IF Created(outcome)
     THEN Done([Response(200, "") EXCEPT !.invoiceUrl = outcome = "order_url",
                                         !.grandTotal = input.attrGrandTotal])
     ELSE Done(Response(500, "Server error"))
  /\ UNCHANGED <<handler, req, now, auth, signedBody, input, nCreate, nLookup>>

Receive_s1(r) == Receive("s1", r, Checkout_s1(r, now))
CreateReturn_s1(outcome) == CreateReturn("s1", outcome, 400)

Receive_s2(r) ==
  \E rnd \in MathRandom : Receive("s2", r, Checkout_s2(r, now, rnd))
CreateReturn_s2(outcome) == CreateReturn("s2", outcome, 400)

Receive_s3(r) == Receive("s3", r, Checkout_s3(r))
CreateReturn_s3(outcome) == CreateReturn("s3", outcome, 400)

----------------------------------------------------------------------------
(* The requests of the model *)

\* The timestamp of a request sent at the clock's start.
FreshTs == ToDigits(BaseClock)

GlassUnit(pair, selfCleaning, w, h, qty) ==
  [BlankUnit EXCEPT !.outerGlass = pair[1], !.innerGlass = pair[2],
                    !.selfCleaning = selfCleaning,
                    !.widthMm = Num(w), !.heightMm = Num(h), !.qty = qty]

\* One unit every server prices or accepts: 1000 x 1000 mm, 4mm Clear both
\* sides, at 10 pounds.
PlainUnit ==
  [GlassUnit(<<"4mm Clear", "4mm Clear">>, "No", 1000, 1000, Num(1))
     EXCEPT !.unitPrice = Num(10 * Pound), !.lineTotal = Num(10 * Pound)]
PlainPayload == Payload("dgu", <<PlainUnit>>, Undef, Undef)

AuthBodies == {EmptyBody, MalformedBody, JsonBody(EmptyObject, "compact"),
               JsonBody(PlainPayload, "compact"), JsonBody(PlainPayload, "spaced")}

\* One character of a hex string changed to the other letter case.
RECURSIVE UpperFirstLetter(_)
UpperFirstLetter(s) ==
  IF s = <<>> THEN <<>>
  ELSE IF Head(s) \in Range(HexLower) \ Range(Digits)
       THEN <<HexUpper[IndexIn(HexLower, Head(s))]>> \o Tail(s)
       ELSE <<Head(s)>> \o UpperFirstLetter(Tail(s))

OtherDigit(c) == IF c = "0" THEN "1" ELSE "0"

\* The signature strings one character away from the signature d: a hex
\* digit in the other case, one character appended (a hex digit or any
\* other), the last character replaced (by a hex digit or any other), the
\* last character left out.
OneCharAway(d) ==
  IF d.hex = NoHeader THEN {}
  ELSE LET n == Len(d.hex) IN
    {[d EXCEPT !.hex = UpperFirstLetter(d.hex)],
     [d EXCEPT !.hex = d.hex \o <<"0">>],
     [d EXCEPT !.hex = d.hex \o <<"g">>],
     [d EXCEPT !.hex = SubSeq(d.hex, 1, n - 1) \o <<OtherDigit(d.hex[n])>>],
     [d EXCEPT !.hex = SubSeq(d.hex, 1, n - 1) \o <<"g">>],
     [d EXCEPT !.hex = SubSeq(d.hex, 1, n - 1)]} \ {d}

\* The X-RG-Signature values sent with timestamp ts and body b: the HMAC of
\* the message, the strings one character away from it, the HMAC of another
\* body or of another timestamp, and none.
SigsFor(ts, b) ==
  LET d == HmacSha256Hex(FRONTEND_SHARED_SECRET, ts, b) IN
  {d, NoSig} \cup OneCharAway(d)
    \cup {HmacSha256Hex(FRONTEND_SHARED_SECRET, ts, b2) : b2 \in AuthBodies}
    \cup {HmacSha256Hex(FRONTEND_SHARED_SECRET, FreshTs, b)}

Signed(origin, ts, b) == Request(origin, ts, HmacSha256Hex(FRONTEND_SHARED_SECRET, ts, b), b)

\* Signed requests with the calculator type left out, in another letter
\* case, and one that is no calculator.
CalculatorTypes == {NoType, "dgu", "DGU", "skylight", "Skylight", "window"}
TypeRequests ==
  {Signed(ALLOWED_ORIGIN, FreshTs, JsonBody(Payload(t, <<PlainUnit>>, Undef, Undef), "compact")) :
     t \in CalculatorTypes}

AuthRequests ==
  UNION {{Request(ALLOWED_ORIGIN, tb[1], sg, tb[2]) : sg \in SigsFor(tb[1], tb[2])} :
           tb \in TsStrings \X AuthBodies}
  \cup {Signed("https://elsewhere", FreshTs, b) : b \in AuthBodies}

\* Sequences of 1 .. MaxUnits elements of S.
SeqsUpTo(S) == UNION {[1..n -> S] : n \in 1..MaxUnits}

\* Payloads whose units carry client totals, with a declared grand total
\* and a declared number of units or without.
TotalsUnits ==
  {[PlainUnit EXCEPT !.qty = q, !.lineTotal = lt] :
     q \in {Undef, Num(1), Num(2)}, lt \in {Undef, Num(10 * Pound)}}
DeclaredGrandTotals ==
  {Undef, Num(0), Num(Penny), Num(10 * Pound), Num(10 * Pound + 10 * Penny),
   Num(10 * Pound + 11 * Penny)}
DeclaredUnitCounts == {Undef, Num(0), Num(7)}
TotalsRequests ==
  {Signed(ALLOWED_ORIGIN, FreshTs, JsonBody(Payload("dgu", us, gt, n), "compact")) :
     us \in SeqsUpTo(TotalsUnits), gt \in DeclaredGrandTotals, n \in DeclaredUnitCounts}

\* DGU payloads: a priced configuration, one with self-cleaning glass, a
\* glass pair no table holds, and an area between two bands of the table;
\* each with the client's own prices or without.
PricingUnits ==
  {[GlassUnit(c[1], c[2], c[3], 1000, q) EXCEPT !.unitPrice = a, !.lineTotal = a] :
     c \in {<<(<<"4mm Clear", "4mm Clear">>), "No", 1000>>,
            <<(<<"4mm Clear", "4mm Clear">>), "Yes", 1000>>,
            <<(<<"8mm Clear", "4mm Clear">>), "No", 1000>>,
            <<(<<"4mm Clear", "4mm Clear">>), "No", 995>>},
     q \in {Num(1), Num(2)}, a \in {Undef, Num(Penny)}}
SkylightUnits ==
  {[BlankUnit EXCEPT !.qty = Num(1), !.internalWidthMm = Num(1000),
                     !.internalHeightMm = Num(1000),
                     !.unitPrice = Num(100 * Pound), !.lineTotal = lt] :
     lt \in {Num(100 * Pound), Num(100 * Pound + 11 * Penny)}}
SkylightRequests ==
  {Signed(ALLOWED_ORIGIN, FreshTs, JsonBody(Payload(t, <<u>>, Undef, Undef), "compact")) :
     t \in {"Skylight", "skylight"}, u \in SkylightUnits}
PricingRequests ==
  {Signed(ALLOWED_ORIGIN, FreshTs, JsonBody(Payload("dgu", us, d[1], d[2]), "compact")) :
     us \in SeqsUpTo(PricingUnits),
     d \in {<<Undef, Undef>>, <<Num(Penny), Num(1)>>}}
  \cup {Signed(ALLOWED_ORIGIN, FreshTs, JsonBody(Payload(NoType, <<u>>, Undef, Undef), "compact")) :
          u \in PricingUnits}
  \cup SkylightRequests

\* Requests with one raw unit, whose width, height and qty are what a
\* client may send: left out, no number, negative, zero, small, at and
\* beyond the limits.
RawWidths == {Undef, Str, Num(-5), Num(0), Num(500), Num(995), Num(1000),
              Num(2500), Num(3000), Num(5000)}
RawHeights == {Undef, Num(500), Num(900), Num(1000), Num(2000)}
RawQtys == {Undef, Str, Num(-1), Num(0), Num(1), Num(10), Num(11), Num(101)}
RawPairs == {<<"4mm Clear", "4mm Clear">>, <<"6mm Clear", "6mm Clear">>,
             <<"4mm Clear", "4mm Softcoat">>, <<NoStr, NoStr>>}
RawUnits ==
  {[BlankUnit EXCEPT !.outerGlass = g[1], !.innerGlass = g[2], !.selfCleaning = sc,
                     !.widthMm = w, !.heightMm = h, !.qty = q,
                     !.unitPrice = Num(10 * Pound), !.lineTotal = Num(10 * Pound)] :
     g \in RawPairs, sc \in {"No", "Yes"}, w \in RawWidths, h \in RawHeights,
     q \in RawQtys}
\* Two units, each with or without self-cleaning, below and above the area
\* whose price is the minimum price.
TwoUnits ==
  [1..2 -> {[GlassUnit(<<"4mm Clear", "4mm Clear">>, sc, d, d, Num(1))
               EXCEPT !.unitPrice = Num(10 * Pound), !.lineTotal = Num(10 * Pound)] :
              sc \in {"No", "Yes"}, d \in {500, 1000}}]
UnitRequests ==
  {Signed(ALLOWED_ORIGIN, FreshTs, JsonBody(Payload("dgu", us, Undef, Undef), "compact")) :
     us \in {<<u>> : u \in RawUnits} \cup TwoUnits}

\* Skylight units at and around the limits of the validation, priced 100
\* pounds a unit, with a line total that is, or is not, unitPrice x qty.
SkylightWidths == {Undef, Num(299), Num(300), Num(1800), Num(1801), Num(2000), Num(2001)}
SkylightHeights == {Undef, Num(299), Num(300), Num(599), Num(600), Num(1200), Num(1201)}
SkylightQtys == {Num(1), Num(2), Num(11)}
LineTotalOffsets == {-11 * Penny, -10 * Penny, 0, 10 * Penny, 11 * Penny}
SkylightRawUnits ==
  {[BlankUnit EXCEPT !.qty = q, !.internalWidthMm = w, !.internalHeightMm = h,
                     !.unitPrice = Num(100 * Pound),
                     !.lineTotal = Num(100 * Pound * ClampQty(q) + d)] :
     w \in SkylightWidths, h \in SkylightHeights, q \in SkylightQtys,
     d \in LineTotalOffsets}
TwoSkylights ==
  [1..2 -> {u \in SkylightRawUnits :
              /\ u.qty = Num(1) /\ u.internalWidthMm \in {Num(1800), Num(1801)}
              /\ u.internalHeightMm = Num(599)
              /\ u.lineTotal \in {Num(100 * Pound), Num(100 * Pound + 11 * Penny)}}]
SkylightChecks ==
  {Signed(ALLOWED_ORIGIN, FreshTs, JsonBody(Payload("skylight", us, Undef, Undef), "compact")) :
     us \in {<<u>> : u \in SkylightRawUnits} \cup TwoSkylights}

\* Units with the options the attribute builders of the third server read:
\* sizes left out, zero and positive; texts left out, empty, blank and set.
OptionTexts == {NoStr, "", "  ", "Toughened"}
YesNoTexts == {NoStr, "No", "Yes", " Yes "}
AttributeUnits ==
  {[BlankUnit EXCEPT !.qty = Num(1), !.unitPrice = Num(10 * Pound),
                     !.widthMm = w, !.heightMm = h, !.outerGlass = g,
                     !.selfCleaning = sc]
     @@ [unitStrength |-> g, glazing |-> o, tint |-> o, solarControl |-> so,
         extWidthMm |-> h, extHeightMm |-> h] :
     w \in {Undef, Str, Num(0), Num(1000)}, h \in {Undef, Num(500)},
     g \in OptionTexts, o \in OptionTexts, sc \in YesNoTexts, so \in YesNoTexts}
AttributeRequests ==
  {Signed(ALLOWED_ORIGIN, FreshTs, JsonBody(Payload(t, <<u>>, Undef, Undef), "compact")) :
     t \in {"dgu", "skylight"}, u \in AttributeUnits}

----------------------------------------------------------------------------
(* Specifications *)

\* A request is taken up only by an idle server.
Incoming(S) == IF pc = "idle" /\ drafts < MaxDrafts THEN S ELSE {}

Platform000 ==
  \/ \E o \in CreateOutcomes : CreateReturn000(o)
  \/ \E o \in LookupOutcomes : LookupReturn000(o)

\* Every server, under requests that vary the headers and the body's bytes.
Next ==
  \/ Tick
  \/ Finish
  \/ \E r \in Incoming(AuthRequests) : Receive000(r)
  \/ \E r \in Incoming(AuthRequests) : Receive001(r)
  \/ \E r \in Incoming(AuthRequests) : Receive002(r)
  \/ \E r \in Incoming(AuthRequests) : Receive003(r)
  \/ \E r \in Incoming(AuthRequests) : Receive_s1(r)
  \/ \E r \in Incoming(AuthRequests) : Receive_s2(r)
  \/ \E r \in Incoming(AuthRequests) : Receive_s3(r)
  \/ Platform000
  \/ \E o \in CreateOutcomes : CreateReturn001(o)
  \/ \E o \in CreateOutcomes : CreateReturn002(o)
  \/ \E o \in CreateOutcomes : CreateReturn003(o)
  \/ \E o \in CreateOutcomes : CreateReturn_s1(o)
  \/ \E o \in CreateOutcomes : CreateReturn_s2(o)
  \/ \E o \in CreateOutcomes : CreateReturn_s3(o)

Spec == Init /\ [][Next]_vars

\* part_000 alone, where every call to the platform returns: an answer of
\* the platform that is due is eventually delivered.
NextPoll ==
  \/ Tick
  \/ Finish
  \/ \E r \in Incoming(AuthRequests \cup TypeRequests) : Receive000(r)
  \/ Redeliver000
  \/ Platform000

SpecPoll == Init /\ [][NextPoll]_vars /\ WF_vars(Platform000)

\* The servers that read client totals, under signed requests that vary them.
NextTotals ==
  \/ Tick
  \/ Finish
  \/ \E r \in Incoming(TotalsRequests) : Receive000(r)
  \/ \E r \in Incoming(TotalsRequests) : Receive001(r)
  \/ \E r \in Incoming(TotalsRequests) : Receive003(r)
  \/ \E r \in Incoming(TotalsRequests) : Receive_s2(r)
  \/ \E r \in Incoming(TotalsRequests) : Receive_s3(r)
  \/ Platform000
  \/ \E o \in CreateOutcomes : CreateReturn001(o)
  \/ \E o \in CreateOutcomes : CreateReturn003(o)
  \/ \E o \in CreateOutcomes : CreateReturn_s2(o)
  \/ \E o \in CreateOutcomes : CreateReturn_s3(o)

SpecTotals == Init /\ [][NextTotals]_vars

\* The servers that price DGU units, under signed requests that vary the
\* configuration and the client's own prices.
NextPricing ==
  \/ Tick
  \/ Finish
  \/ \E r \in Incoming(PricingRequests) : Receive002(r)
  \/ \E r \in Incoming(PricingRequests) : Receive_s1(r)
  \/ \E r \in Incoming(SkylightRequests) : Receive004(r)
  \/ \E o \in CreateOutcomes : CreateReturn002(o)
  \/ \E o \in CreateOutcomes : CreateReturn_s1(o)
  \/ \E o \in CreateOutcomes : CreateReturn004(o)

SpecPricing == Init /\ [][NextPricing]_vars

\* The servers that normalise or forward the units of a request, with
\* requests of one raw unit.
NextUnits ==
  \/ Tick
  \/ Finish
  \/ \E r \in Incoming(UnitRequests) : Receive002(r)
  \/ \E r \in Incoming(UnitRequests) : Receive_s1(r)
  \/ \E r \in Incoming(UnitRequests) : Receive_s2(r)
  \/ \E r \in Incoming(UnitRequests) : Receive_s3(r)
  \/ \E r \in Incoming(UnitRequests) : Receive003(r)
  \/ \E o \in CreateOutcomes : CreateReturn002(o)
  \/ \E o \in CreateOutcomes : CreateReturn_s1(o)
  \/ \E o \in CreateOutcomes : CreateReturn_s2(o)
  \/ \E o \in CreateOutcomes : CreateReturn_s3(o)
  \/ \E o \in CreateOutcomes : CreateReturn003(o)

SpecUnits == Init /\ [][NextUnits]_vars

\* The third server of server.js with the options of the units.
NextAttributes ==
  \/ Tick
  \/ Finish
  \/ \E r \in Incoming(AttributeRequests) : Receive_s3(r)
  \/ \E o \in CreateOutcomes : CreateReturn_s3(o)

SpecAttributes == Init /\ [][NextAttributes]_vars

\* part_002 with skylight requests.
NextSkylight ==
  \/ Tick
  \/ Finish
  \/ \E r \in Incoming(SkylightChecks) : Receive002(r)
  \/ \E o \in CreateOutcomes : CreateReturn002(o)

SpecSkylight == Init /\ [][NextSkylight]_vars

----------------------------------------------------------------------------
(* Properties *)

HeadersMissing(r) == r.ts = NoHeader \/ r.sig.hex = NoHeader
TsNumeric(r) == NumberIsFinite(StringToNumber(r.ts))
Skew(r) == Abs(now - StringToNumber(r.ts).v)
\* The HMAC of the timestamp, a dot and the body as received.
ExpectedSig(r) == HmacSha256Hex(FRONTEND_SHARED_SECRET, r.ts, r.body)
Window(h) == IF h = "p003" THEN REPLAY_WINDOW_MS ELSE MAX_SKEW_MS
Units == JsonParse(req.body).units
Declared == JsonParse(req.body)

\* C1: in part_000 and part_003 a request whose signature headers are
\* missing, whose timestamp is outside the window or whose signature does
\* not match is answered 401 (reason timestamp_skew in part_000 when the
\* timestamp is expired), and no call to the platform is made for it.
C1_UnsignedAnswered401 ==
  (/\ handler \in {"p000", "p003"} /\ pc # "idle"
   /\ \/ HeadersMissing(req)
      \/ TsNumeric(req) /\ Skew(req) > Window(handler)
      \/ req.sig # ExpectedSig(req))
  => /\ nCreate = 0 /\ nLookup = 0
     /\ pc = "done" => res.status = 401
     /\ (/\ handler = "p000" /\ ~HeadersMissing(req) /\ TsNumeric(req)
         /\ Skew(req) > MAX_SKEW_MS /\ pc = "done") => res.reason = "timestamp_skew"

\* C2: in every handler the signature is verified over the bytes received
\* as the body, never over a re-serialisation of the parsed body.
C2_VerifiedOverReceivedBytes ==
  (pc # "idle" /\ auth.ok) => signedBody = req.body

\* C3: verifyHmac of part_000 returns ok exactly when both headers are
\* present, the timestamp is numeric, the skew is within maxSkewMs and the
\* signature equals the HMAC; otherwise the first reason that applies, in
\* the order missing_headers, bad_timestamp, timestamp_skew, bad_signature.
C3_OkExactlyWhenSigned ==
  (handler = "p000" /\ pc # "idle" /\ auth # NotChecked)
  => auth = IF HeadersMissing(req) THEN Fail("missing_headers")
            ELSE IF ~TsNumeric(req) THEN Fail("bad_timestamp")
            ELSE IF Skew(req) > MAX_SKEW_MS THEN Fail("timestamp_skew")
            ELSE IF req.sig # ExpectedSig(req) THEN Fail("bad_signature")
            ELSE Ok

\* C4: changing one character of the signature, of the timestamp or of the
\* body of a request verifyHmac of part_000 accepts makes verification
\* fail, a change of letter case or an appended character included.
C4_AnyChangeFails ==
  (handler = "p000" /\ pc # "idle" /\ auth.ok)
  => /\ \A s2 \in OneCharAway(req.sig) :
          ~verifyHmac(FRONTEND_SHARED_SECRET, req.ts, req.body, s2, MAX_SKEW_MS, now).ok
     /\ \A ts2 \in TsStrings \ {req.ts} :
          ~verifyHmac(FRONTEND_SHARED_SECRET, ts2, req.body, req.sig, MAX_SKEW_MS, now).ok
     /\ \A b2 \in AuthBodies \ {req.body} :
          ~verifyHmac(FRONTEND_SHARED_SECRET, req.ts, b2, req.sig, MAX_SKEW_MS, now).ok

\* C5: in part_000 and part_001 a correctly signed request whose timestamp
\* is exactly the maximum skew away from the clock, in the past or in the
\* future, is accepted, and one a millisecond further is rejected.
C5_SkewBoundary ==
  (/\ handler \in {"p000", "p001"} /\ pc # "idle" /\ auth # NotChecked
   /\ TsNumeric(req) /\ req.sig = ExpectedSig(req))
  => LET ts == StringToNumber(req.ts).v IN
     /\ (now - ts = MAX_SKEW_MS \/ ts - now = MAX_SKEW_MS) => auth.ok
     /\ (now - ts = MAX_SKEW_MS + 1 \/ ts - now = MAX_SKEW_MS + 1) => ~auth.ok

\* part_000 has accepted a request stamped exactly the maximum skew ago.
C5_Witness ==
  /\ handler = "p000" /\ pc # "idle" /\ req.sig = ExpectedSig(req)
  /\ TsNumeric(req) /\ now - StringToNumber(req.ts).v = MAX_SKEW_MS
  /\ auth.ok

IsDguPath == handler = "s1" \/ ToLowerCase(StrOr(Declared.calculatorType, "")) # "skylight"
ServerPrice(u) == IF handler = "s1" THEN calcUnitPriceIncVat(normalizeUnit(u))
                  ELSE calcUnitPriceIncVatDGU(normalizeUnitDGU(u))

\* C6: in the DGU path of part_002 and in the first server of server.js a
\* request one of whose units is priced 0 is rejected with 422 and no draft
\* order is created, whatever the price of its other units.
C6_ZeroPricedUnitRejected ==
  (/\ handler \in {"p002", "s1"} /\ pc # "idle" /\ auth.ok /\ IsDguPath
   /\ \E i \in DOMAIN Units : ServerPrice(Units[i]) = 0)
  => nCreate = 0 /\ (pc = "done" => res.status = 422)

\* The payload without what the client says of prices and totals.
WithoutClientTotals(p) ==
  [p EXCEPT !.grandTotal = Undef, !.totalUnitsQty = Undef,
            !.units = [i \in DOMAIN p.units |->
                         [p.units[i] EXCEPT !.unitPrice = Undef, !.lineTotal = Undef]]]

\* C7: the price part_002 sends for a DGU request is the price it sends for
\* the same request without unitPrice, lineTotal, grandTotal and
\* totalUnitsQty; so two requests that differ only in these send the same.
C7_PriceIgnoresClientTotals ==
  (handler = "p002" /\ pc = "create" /\ IsDguPath)
  => LET bare == Checkout002(Signed(req.origin, req.ts,
                                     JsonBody(WithoutClientTotals(Declared), req.body.fmt)))
     IN bare.kind = "create" /\ bare.input.lineItems = input.lineItems

\* part_002 creates the order of a DGU request that carries client prices
\* and client totals.
C7_Witness ==
  /\ handler = "p002" /\ pc = "create" /\ IsDguPath
  /\ Declared.grandTotal # Undef /\ Declared.totalUnitsQty # Undef
  /\ \E i \in DOMAIN Units : Units[i].unitPrice # Undef /\ Units[i].lineTotal # Undef

SumLineTotals == SeqSum([i \in DOMAIN Units |-> NumberOr(Units[i].lineTotal, 0)])

\* C8: in part_000 and in the second and third servers of server.js a
\* declared grandTotal that differs from the sum of the line totals by more
\* than the money tolerance (0.10) is not used as the order's grand total.
C8_DeclaredTotalCrossChecked ==
  (/\ handler \in {"p000", "s2", "s3"} /\ pc = "create"
   /\ NumberIsFinite(Number(Declared.grandTotal))
   /\ Abs(Number(Declared.grandTotal).v - SumLineTotals) > 10 * Penny)
  => input.noteGrandTotal # Num(ToFixed2(Number(Declared.grandTotal).v))

\* C9: for every request part_001 accepts, the Grand Total of the note, of
\* the attributes and of the response is the sum of the units' lineTotal,
\* and the Total Units value is the sum of the units' quantities, whatever
\* the client declared.
C9_TotalsRecomputed ==
  (handler = "p001" /\ pc # "idle" /\ input # NoInput)
  => LET grand == Num(money2(SumLineTotals))
         count == Num(computeGrandTotals(Units).totalUnitsQty)
     IN /\ input.noteGrandTotal = grand /\ input.attrGrandTotal = grand
        /\ input.noteTotalUnits = count /\ input.attrTotalUnits = count
        /\ res.status = 200 => res.grandTotal = grand /\ res.totalUnitsQty = count

\* C10: within one request of part_000 at most one create mutation is
\* sent, and no invoice lookup is sent unless the create call returned a
\* draft order: none after it threw or returned userErrors.
C10_OneCreateNoRetry ==
  handler = "p000" => /\ nCreate <= 1
                      /\ order.id = NoId => nLookup = 0
                      /\ (pc = "done" /\ nCreate = 1 /\ order.id = NoId)
                           => res.status \in {400, 500, 502}

\* The create call of part_000 returned userErrors: answered 400 after one
\* create and no lookup.
C10_Witness ==
  /\ handler = "p000" /\ pc = "done" /\ res.reason = "Shopify userErrors"
  /\ nCreate = 1 /\ nLookup = 0

\* C11: the polling of part_000 sends at most attempts lookups; it is
\* entered only for a create response with an order id and no invoice URL;
\* a lookup that yields a URL ends it at once with that URL, without a
\* further query; it gives up (invoiceUrl_null) only after attempts
\* lookups; and it terminates when every query returns.
C11_BoundedPolling ==
  /\ [](handler = "p000" =>
          /\ nLookup <= INVOICE_ATTEMPTS
          /\ pc = "lookup" => order.id # NoId /\ ~order.invoiceUrl /\ nLookup >= 1
          /\ nLookup >= 1 => order.id # NoId /\ ~order.invoiceUrl)
  /\ [][pc = "lookup" =>
          \/ pc' = "lookup" /\ nLookup' = nLookup + 1 /\ nLookup < INVOICE_ATTEMPTS
          \/ /\ pc' = "done" /\ nLookup' = nLookup
             /\ res'.status = 502 => nLookup = INVOICE_ATTEMPTS /\ ~res'.invoiceUrl]_vars
  /\ (pc = "lookup" ~> pc = "done")

\* The polling of part_000 gave up after attempts lookups without a URL.
C11_Witness ==
  /\ handler = "p000" /\ pc = "done" /\ res.reason = "invoiceUrl_null"
  /\ order.id # NoId /\ nLookup = INVOICE_ATTEMPTS

\* C12: in part_000, part_002 and part_004 a create response with a
\* non-empty userErrors list is answered 400, after one create call only.
C12_UserErrorsAnswered400 ==
  (handler \in {"p000", "p002", "p004"} /\ pc = "done" /\ order.userErrors)
  => res.status = 400 /\ nCreate = 1

\* C13: part_000 answers 502 invoiceUrl_null exactly when the create
\* response carried a draft order and no userErrors and no invoice URL was
\* obtained; never for a request whose order was not created.
C13_Status502OnlyForCreatedOrder ==
  (handler = "p000" /\ pc = "done" /\ nCreate = 1)
  => (res.reason = "invoiceUrl_null" /\ res.status = 502)
       <=> (order.id # NoId /\ ~order.userErrors /\ ~res.invoiceUrl)

\* C14: handling the same signed request of part_000 once more within the
\* window creates no second draft order: while the platform holds the order
\* of an earlier handling of the request in hand, no order is added.
C14_ReplayCreatesNoOrder ==
  [][(handler = "p000" /\ pc = "create" /\ order.id # NoId) => drafts' = drafts]_vars

\* C15: the line items built from a payload are the same on every call,
\* whatever the clock and the random source give: for the request in hand,
\* buildDraftLineItemsFromUnits (second server) and buildDraftOrderLineItems
\* (part_000) give the line items that were sent at any clock and with any
\* random numbers.
C15_LineItemsDeterministic ==
  /\ (handler = "s2" /\ pc = "create")
     => \A c \in BaseClock..(BaseClock + MaxTick), rnd \in MathRandom :
          buildDraftLineItemsFromUnits(Units, c, rnd) = input.lineItems
  /\ (handler = "p000" /\ pc = "create")
     => buildDraftOrderLineItems(Units) = input.lineItems

\* The unit of the request in hand as the server normalises it, its
\* clamped size, and its glass as read from the payload.
Normalized == IF handler = "s1" THEN normalizeUnit(Units[1]) ELSE normalizeUnitDGU(Units[1])
Clamped ==
  IF handler = "s1" THEN clampDims(Number(Units[1].widthMm), Number(Units[1].heightMm))
  ELSE clampDimsDGU(Number(Units[1].widthMm), Number(Units[1].heightMm))
GlassRead ==
  IF handler = "s1" THEN <<StrOr(Units[1].outerGlass, ""), StrOr(Units[1].innerGlass, "")>>
  ELSE <<StringOf(Units[1].outerGlass), StringOf(Units[1].innerGlass)>>
ClampedAreaKnown == NumberIsFinite(Clamped.w) /\ NumberIsFinite(Clamped.h)
ClampedArea == Clamped.w.v * Clamped.h.v

\* C16: a unit whose clamped area is at least 2.5 square metres and whose
\* panes are both "4mm Clear" is normalised (part_002, first server of
\* server.js) to both panes "6mm Clear" with _areaUpgradeApplied true; a
\* unit with a clamped area below 2.5 square metres, and a unit whose panes
\* are not both "4mm Clear", keeps its glass with _areaUpgradeApplied false.
C16_AreaUpgrade ==
  (handler \in {"p002", "s1"} /\ pc # "idle" /\ Len(Units) = 1)
  => LET both4 == GlassRead = <<"4mm Clear", "4mm Clear">>
         n == Normalized
     IN /\ (ClampedAreaKnown /\ 2 * ClampedArea >= 5 * SquareMetre /\ both4)
           => /\ n.outerGlass = "6mm Clear" /\ n.innerGlass = "6mm Clear"
              /\ n._areaUpgradeApplied
        /\ ((ClampedAreaKnown /\ 2 * ClampedArea < 5 * SquareMetre) \/ ~both4)
           => /\ <<n.outerGlass, n.innerGlass>> = GlassRead
              /\ ~n._areaUpgradeApplied
        /\ (handler = "p002" /\ pc = "create")
           => input.attrGrandTotal = Num(ToFixed2(calcUnitPriceIncVatDGU(n) * n.qty))

\* part_002 has normalised a "4mm Clear" unit of exactly 2.5 square metres.
C16_Witness ==
  /\ handler = "p002" /\ pc = "done" /\ res.status = 200 /\ Len(Units) = 1
  /\ GlassRead = <<"4mm Clear", "4mm Clear">>
  /\ ClampedAreaKnown /\ 2 * ClampedArea = 5 * SquareMetre
  /\ Normalized._areaUpgradeApplied

\* The price of a normalised unit under a given pair of panes.
PriceUnder(pair, n) ==
  calcUnitPriceIncVatDGU([n EXCEPT !.outerGlass = pair[1], !.innerGlass = pair[2]])

\* C17: in the DGU path of part_002 the area rule is applied before
\* pricing: a unit with _areaUpgradeApplied is priced under the pair
\* "6mm Clear", "6mm Clear" (and rejected when that pair has no price for
\* it), never under "4mm Clear", "4mm Clear".
C17_UpgradedPricedAsUpgraded ==
  (/\ handler = "p002" /\ pc # "idle" /\ auth.ok /\ Len(Units) = 1
   /\ Normalized._areaUpgradeApplied)
  => LET n == Normalized
         p6 == PriceUnder(<<"6mm Clear", "6mm Clear">>, n)
         p4 == PriceUnder(<<"4mm Clear", "4mm Clear">>, n)
     IN IF p6 = 0 THEN nCreate = 0 /\ (pc = "done" => res.status = 422)
        ELSE /\ nCreate = 1
             /\ input.attrGrandTotal = Num(ToFixed2(p6 * n.qty))
             /\ input.attrGrandTotal # Num(ToFixed2(p4 * n.qty))

\* part_002 sends the order of an upgraded unit.
C17_Witness ==
  /\ handler = "p002" /\ pc = "create" /\ Len(Units) = 1
  /\ Normalized._areaUpgradeApplied /\ input.attrGrandTotal.v > 0

\* C18: the price calcUnitPriceIncVatDGU gives a normalised unit is at
\* least the minPrice of its pair of panes whenever PRICING_TABLES has the
\* pair, is 0 when it has not, and is never negative.
C18_PriceAtLeastMinimum ==
  (handler = "p002" /\ pc # "idle" /\ Len(Units) = 1)
  => LET n == Normalized
         key == <<n.outerGlass, n.innerGlass>>
         price == calcUnitPriceIncVatDGU(n)
     IN /\ price >= 0
        /\ key \in DOMAIN PRICING_TABLES => price >= PRICING_TABLES[key].minPrice
        /\ key \notin DOMAIN PRICING_TABLES => price = 0

\* C20: normalizeUnitDGU gives every raw unit a qty in 1..10, a widthMm in
\* 150..3000 and a heightMm in 150..1732; the line items the second and the
\* third server of server.js send have a quantity in 1..10.
C20_WithinLimits ==
  /\ (handler = "p002" /\ pc # "idle" /\ Len(Units) = 1)
     => LET n == Normalized
        IN /\ n.qty \in 1..10
           /\ NumberIsFinite(n.widthMm) /\ n.widthMm.v \in 150..3000
           /\ NumberIsFinite(n.heightMm) /\ n.heightMm.v \in 150..1732
  /\ (handler \in {"s2", "s3"} /\ pc = "create")
     => \A i \in DOMAIN input.lineItems : input.lineItems[i].quantity \in 1..10

\* The units of the request in hand as part_002 normalises them; the base
\* cost and the self-cleaning cost of a priced unit.
NormalizedUnits == [i \in DOMAIN Units |-> normalizeUnitDGU(Units[i])]
Priced(n) == calcUnitPriceIncVatDGU(n) > 0
Table(n) == PRICING_TABLES[<<n.outerGlass, n.innerGlass>>]
BaseCost(n) ==
  AreaTimesRate(n.widthMm.v * n.heightMm.v,
                bandRate(n.widthMm.v * n.heightMm.v, Table(n).bands))
SelfCleaningCost(n) ==
  IF n.selfCleaning = "Yes"
  THEN AreaTimesRate(n.widthMm.v * n.heightMm.v,
                     bandRate(n.widthMm.v * n.heightMm.v, SELF_CLEAN_BANDS))
  ELSE 0
WithoutSelfCleaning(n) == [n EXCEPT !.selfCleaning = "No"]

\* C19 as stated: the price of a priced unit of part_002 is
\* max(minPrice, area x bandRate) plus area x selfCleaningBandRate when
\* selfCleaning is "Yes", so a self-cleaning unit costs exactly
\* area x selfCleaningBandRate more than the same unit without, and the
\* total sent for two units has the surcharge of the unit that asked for it.
C19_SurchargeOnTopOfMinimum ==
  (handler = "p002" /\ pc = "create")
  => LET ns == NormalizedUnits
     IN /\ \A i \in DOMAIN ns :
             Priced(ns[i])
             => /\ calcUnitPriceIncVatDGU(ns[i])
                     = Max(Table(ns[i]).minPrice, BaseCost(ns[i])) + SelfCleaningCost(ns[i])
                /\ calcUnitPriceIncVatDGU(ns[i])
                     = calcUnitPriceIncVatDGU(WithoutSelfCleaning(ns[i]))
                       + SelfCleaningCost(ns[i])
        /\ input.attrGrandTotal =
             Num(ToFixed2(SeqSum([i \in DOMAIN ns |->
                   IF Priced(ns[i])
                   THEN (Max(Table(ns[i]).minPrice, BaseCost(ns[i]))
                         + SelfCleaningCost(ns[i])) * ns[i].qty
                   ELSE 0])))

\* C19, amended: the price of a priced unit of part_002 is
\* max(minPrice, area x bandRate + area x selfCleaningBandRate): the
\* minimum price is applied after the self-cleaning cost is added.  A
\* self-cleaning unit costs area x selfCleaningBandRate more than the same
\* unit without when its base cost reaches the minimum price, and less (down
\* to nothing) when it does not; the total sent is the sum of these prices
\* times qty, so only the unit that asked for self-cleaning carries it.
C19_MinimumAfterSurcharge ==
  (handler = "p002" /\ pc = "create")
  => LET ns == NormalizedUnits
         surcharge(n) == calcUnitPriceIncVatDGU(n)
                         - calcUnitPriceIncVatDGU(WithoutSelfCleaning(n))
     IN /\ \A i \in DOMAIN ns :
             Priced(ns[i])
             => /\ calcUnitPriceIncVatDGU(ns[i])
                     = Max(Table(ns[i]).minPrice, BaseCost(ns[i]) + SelfCleaningCost(ns[i]))
                /\ surcharge(ns[i]) >= 0 /\ surcharge(ns[i]) <= SelfCleaningCost(ns[i])
                /\ BaseCost(ns[i]) >= Table(ns[i]).minPrice
                   => surcharge(ns[i]) = SelfCleaningCost(ns[i])
        /\ input.attrGrandTotal =
             Num(ToFixed2(SeqSum([i \in DOMAIN ns |->
                   IF Priced(ns[i])
                   THEN Max(Table(ns[i]).minPrice, BaseCost(ns[i]) + SelfCleaningCost(ns[i]))
                        * ns[i].qty
                   ELSE 0])))

\* part_002 sends the order of two units of which only the first asked for
\* self-cleaning, and whose base cost is below the minimum price.
C19_Witness ==
  /\ handler = "p002" /\ pc = "create" /\ Len(Units) = 2
  /\ NormalizedUnits[1].selfCleaning = "Yes" /\ NormalizedUnits[2].selfCleaning = "No"
  /\ BaseCost(NormalizedUnits[1]) < Table(NormalizedUnits[1]).minPrice
  /\ SelfCleaningCost(NormalizedUnits[1]) > 0

\* The skylight units of the request in hand as part_002 normalises them.
Skylights == [i \in DOMAIN Units |-> normalizeUnitSkylight(Units[i])]
IsSkylightPath ==
  handler = "p002" /\ pc # "idle" /\ auth.ok /\ ~IsDguPath /\ Units # <<>>
WithinSkylightLimits(u) ==
  /\ NumberIsFinite(u.internalW) /\ u.internalW.v \in 300..2000
  /\ NumberIsFinite(u.internalH) /\ u.internalH.v \in 300..1200
  /\ u.internalW.v > 1800 => u.internalH.v >= 600
  /\ u.internalW.v * u.internalH.v <= 3 * SquareMetre

\* C21: in the skylight path of part_002 every request that reaches the
\* platform has, for each unit, an internal width in 300..2000, an internal
\* height in 300..1200, a height of 600 or more when the width is above
\* 1800, and an area of at most 3,000,000 mm2; a request with a unit outside
\* these is answered 422 without a platform call; normalizeUnitSkylight
\* leaves the dimensions as sent.
C21_SkylightLimits ==
  IsSkylightPath
  => /\ nCreate = 1 => \A i \in DOMAIN Units : WithinSkylightLimits(Skylights[i])
     /\ (\E i \in DOMAIN Units : ~WithinSkylightLimits(Skylights[i]))
        => nCreate = 0 /\ (pc = "done" => res.status = 422)
     /\ \A i \in DOMAIN Units :
          /\ Skylights[i].internalW = Number(Units[i].internalWidthMm)
          /\ Skylights[i].internalH = Number(Units[i].internalHeightMm)

\* part_002 has rejected a skylight request whose only fault is a unit
\* wider than 1800 and lower than 600, and has sent one at the limit.
C21_Witness ==
  /\ IsSkylightPath /\ pc = "done" /\ res.status = 422 /\ Len(Units) = 1
  /\ Skylights[1].internalW = Num(1801) /\ Skylights[1].internalH = Num(599)
  /\ Skylights[1].lineTotal.v = Skylights[1].unitPrice.v * Skylights[1].qty

\* C22: in the skylight path of part_002 a unit is accepted only if its
\* lineTotal differs from unitPrice x qty (qty clamped to 1..10) by at most
\* 10 pence; a request with a unit outside the tolerance is answered 422
\* without a platform call; the total sent for an accepted request is the
\* sum of the line totals.
C22_LineTotalTolerance ==
  IsSkylightPath
  => LET off(u) == Abs(u.lineTotal.v - u.unitPrice.v * u.qty) IN
     /\ nCreate = 1
        => /\ \A i \in DOMAIN Units :
                Skylights[i].qty \in 1..10 /\ off(Skylights[i]) <= 10 * Penny
           /\ input.attrGrandTotal =
                Num(ToFixed2(SeqSum([i \in DOMAIN Units |-> Skylights[i].lineTotal.v])))
           /\ input.lineItems = <<LineItem(1, input.attrGrandTotal, TRUE)>>
     /\ (\E i \in DOMAIN Units : off(Skylights[i]) > 10 * Penny)
        => nCreate = 0 /\ (pc = "done" => res.status = 422)

\* part_002 has rejected a skylight request whose only fault is a line
\* total 11 pence off.
C22_Witness ==
  /\ IsSkylightPath /\ pc = "done" /\ res.status = 422 /\ Len(Units) = 1
  /\ WithinSkylightLimits(Skylights[1])
  /\ Skylights[1].lineTotal.v = Skylights[1].unitPrice.v * Skylights[1].qty + 11 * Penny

\* C23: part_000 either answers 400 to a calculatorType other than "dgu" and
\* "skylight", or takes it for one and the same calculator at every place:
\* the anchor variant, the Calculator attribute, the unit summary, the note
\* and the tags.
C23_OneCalculatorEverywhere ==
  (/\ handler = "p000" /\ pc # "idle" /\ auth.ok /\ Units # <<>>
   /\ Declared.calculatorType \notin {"dgu", "skylight"})
  => \/ nCreate = 0 /\ (pc = "done" => res.status = 400)
     \/ /\ nCreate = 1
        /\ \E t \in {"dgu", "skylight"} :
             /\ input.calculator.anchor = t
             /\ ToLowerCase(input.calculator.attribute) = t
             /\ input.calculator.summary = t
             /\ ToLowerCase(input.calculator.note) = t
             /\ input.calculator.tag = t

\* The keys of an attribute list; the order of the Skylight keys.
Keys(attrs) == [k \in DOMAIN attrs |-> attrs[k].key]
SkylightKeyOrder ==
  <<"Calculator", "Internal", "Unit Strength", "Glazing", "Tint", "Solar Control",
    "Self Cleaning", "External">>

\* C24: the attribute list the third server of server.js builds for a unit
\* always has the Calculator key and the size key (Size for DGU, Internal
\* for Skylight), has no attribute with an empty or blank value, and lists
\* the Skylight keys in their fixed order, Solar Control and Self Cleaning
\* only with the value "Yes".
C24_AttributeList ==
  (handler = "s3" /\ pc = "create")
  => \A i \in 2..Len(input.lineItems) :
       LET attrs == input.lineItems[i].customAttributes
           keys == Keys(attrs)
           skylight == Trim(ToLowerCase(safeStr(Declared.calculatorType))) = "skylight"
       IN /\ "Calculator" \in Range(keys)
          /\ (IF skylight THEN "Internal" ELSE "Size") \in Range(keys)
          /\ \A k \in DOMAIN attrs : Trim(attrs[k].value) # ""
          /\ skylight
             => /\ \A j, k \in DOMAIN keys :
                     j < k => IndexIn(SkylightKeyOrder, keys[j]) < IndexIn(SkylightKeyOrder, keys[k])
                /\ \A k \in DOMAIN attrs :
                     attrs[k].key \in {"Solar Control", "Self Cleaning"}
                     => attrs[k].value = "Yes"

\* C25: a 500 answer of part_000 carries a generic message only: no text of
\* the thrown exception, and so none of the platform's response body,
\* reaches the caller.
C25_GenericServerError ==
  (handler = "p000" /\ pc = "done" /\ res.status = 500)
  => res.reason = "Server error" /\ res.message = ""

\* C29: once the create call of part_000 has returned a draft order id,
\* the answer to the request (200, 502, or 500 after a failing lookup)
\* carries that id.
C29_CreatedOrderReported ==
  (handler = "p000" /\ pc = "done" /\ nCreate = 1 /\ order.id # NoId)
  => res.draftOrderId = order.id

\* C26: the clamps are idempotent: clampDimsDGU (part_002), clampDims
\* (server.js) and clamp (part_003) applied to their own result, and the
\* quantity clamp applied to its own result, give that result again, for the
\* width, height and qty of the request in hand.
C26_ClampsIdempotent ==
  (handler \in {"p002", "s1", "p003"} /\ pc # "idle" /\ Len(Units) = 1)
  => LET w == Number(Units[1].widthMm)
         h == Number(Units[1].heightMm)
         q == safeNum_p003(Units[1].qty, 1)
     IN /\ clampDimsDGU(clampDimsDGU(w, h).w, clampDimsDGU(w, h).h) = clampDimsDGU(w, h)
        /\ clampDims(clampDims(w, h).w, clampDims(w, h).h) = clampDims(w, h)
        /\ clamp(clamp(q, 1, 10), 1, 10) = clamp(q, 1, 10)
        /\ clamp(clamp(q, 0, 9999), 0, 9999) = clamp(q, 0, 9999)
        /\ ClampQty(Num(ClampQty(Units[1].qty))) = ClampQty(Units[1].qty)
        /\ handler = "p002" => normalizeUnitDGU(Units[1]).qty = ClampQty(Units[1].qty)

\* part_002 has clamped a negative width, a height beyond the limit and a
\* quantity beyond the limit.
C26_Witness ==
  /\ handler = "p002" /\ pc = "create" /\ Len(Units) = 1
  /\ Units[1].widthMm = Num(-5) /\ Units[1].heightMm = Num(2000) /\ Units[1].qty = Num(101)
  /\ Normalized.widthMm = Num(150) /\ Normalized.heightMm = Num(1732) /\ Normalized.qty = 10

\* The bands of a table that hold an area, and the largest area of a table.
BandsHolding(areaMm2, bands) ==
  {k \in DOMAIN bands : areaMm2 >= bands[k].min /\ areaMm2 <= bands[k].max}
LargestArea(bands) == bands[Len(bands)].max

\* C27: the bands of every PRICING_TABLES entry and of SELF_CLEAN_BANDS
\* leave no gap: an area of whole millimetres between 0 and the largest band
\* maximum of the table lies in exactly one band, so that a unit of a tabled
\* pair is priced and a self-cleaning one has a self-cleaning rate.
C27_BandsWithoutGaps ==
  (handler = "p002" /\ pc # "idle" /\ Len(Units) = 1 /\ ClampedAreaKnown)
  => LET n == Normalized
         key == <<n.outerGlass, n.innerGlass>>
     IN /\ (key \in DOMAIN PRICING_TABLES
            /\ ClampedArea <= LargestArea(PRICING_TABLES[key].bands))
           => /\ Cardinality(BandsHolding(ClampedArea, PRICING_TABLES[key].bands)) = 1
              /\ calcUnitPriceIncVatDGU(n) > 0
        /\ ClampedArea <= LargestArea(SELF_CLEAN_BANDS)
           => /\ Cardinality(BandsHolding(ClampedArea, SELF_CLEAN_BANDS)) = 1
              /\ bandRate(ClampedArea, SELF_CLEAN_BANDS) > 0

\* C28: a unit whose raw panes are both "4mm Clear" is priceable once
\* normalised: its clamped area is within the 3.0 square metres of the last
\* band of the table used after the area rule, and calcUnitPriceIncVatDGU
\* gives it a positive price.
C28_BaseTierPriceable ==
  (/\ handler = "p002" /\ pc # "idle" /\ Len(Units) = 1 /\ ClampedAreaKnown
   /\ GlassRead = <<"4mm Clear", "4mm Clear">>)
  => /\ ClampedArea <= LargestArea(PRICING_TABLES[<<"6mm Clear", "6mm Clear">>].bands)
     /\ calcUnitPriceIncVatDGU(Normalized) > 0

\* What the platform charges for the line items sent: quantity times price
\* of every item but the anchor, which is discounted to nothing.
Charged ==
  SeqSum([i \in DOMAIN input.lineItems |->
            IF input.lineItems[i].anchor THEN 0
            ELSE input.lineItems[i].quantity * input.lineItems[i].price.v])

\* C30: for every request part_001 accepts, what the platform will charge
\* is the Grand Total written in the note, in the noteAttributes and in the
\* response.
C30_ChargedIsGrandTotal ==
  (handler = "p001" /\ pc # "idle" /\ nCreate = 1)
  => /\ input.noteGrandTotal = Num(Charged)
     /\ input.attrGrandTotal = Num(Charged)
     /\ (pc = "done" /\ res.status = 200) => res.grandTotal = Num(Charged)

====
